---- MODULE Spec2Model ----
(***************************************************************************)
(* A model of pipeline.py: PDF -> half pages -> Yomitoku HTML -> Gemini    *)
(* JSON.  These specifications share the module:                           *)
(*   Spec          main(), process_pdf(), process_half_page(): the two     *)
(*                 nested ThreadPoolExecutors and the failure handling.    *)
(*   FairSpec      Spec with weak fairness (threads that can run, run).    *)
(*   SpecCall      call_gemini(): uploads, generation, cleanup.            *)
(*   SpecAttach    _attach_year(): the pure provenance stamping.           *)
(*   SpecWrite     write_json() on the texts a model can return.           *)
(*   SpecSplit     split_pdf(), one iteration at a time.                   *)
(*   SpecRerun     two runs of the pipeline on one document.               *)
(*   SpecConfig    resolve_config(), the CLI overrides, iter_pdfs().       *)
(*   SpecUnit      process_half_page(), one step at a time.                *)
(* Text is a sequence of one-character strings, so that concatenation and  *)
(* sanitisation are computed the way the code computes them.               *)
(***************************************************************************)
EXTENDS Integers, Sequences, FiniteSets, Bags, TLC

VARIABLES
    cfg,          \* Config after resolve_config() and the CLI overrides
    apiKey,       \* os.environ has a non-empty GEMINI_API_KEY
    promptOk,     \* cfg.prompt_path.read_text() succeeds
    mainPc,       \* position of main()
    runError,     \* the exception main() raised, "none" if none
    pdfs,         \* iter_pdfs() result: indices into Universe, in order
    docPc,        \* per document task of the outer pool: its position
    docErr,       \* per document: the exception process_pdf raised itself
    halves,       \* per document: split_pdf() result
    unitPc,       \* per document, per half: position of process_half_page
    unitErr,      \* per document, per half: "raised" once a step of it raised
    fs,           \* files written by split_pdf and write_json, and page
                  \* directories used by run_yomitoku: [op, path, unit]
    errors,       \* bag of printed [ERROR] lines
    \* call_gemini, per concurrent caller
    callPc,       \* position in call_gemini
    uploads,      \* the local list `uploads`
    pdf_file,     \* the local pdf_file: a remote file, <<>> while unbound
    html_file,    \* the local html_file
    delIdx,       \* position of the cleanup loop in `uploads`
    raising,      \* an exception is propagating through the finally block
    remote,       \* files held by the remote service
    deleteIssued, \* files genai.delete_file was called for
    \* _attach_year
    ayPc, ayIn, ayTag, ayOut,
    \* write_json
    wjPc,         \* position of write_json
    wjPayload,    \* the argument payload: the text the model returned
    wjTag,        \* the argument year_tag
    wjOut,        \* what target.write_text was given, or the exception
    \* split_pdf
    spPc,         \* position of split_pdf
    spStem,       \* pdf_path.stem: an index into Universe
    spPages,      \* len(reader.pages)
    spIdx,        \* iteration of the two nested loops, counted from 1
    spHalves,     \* the local list `halves`
    spFiles,      \* the files written below out_dir
    \* two runs of the pipeline on one document
    rrPc,         \* position of process_pdf in the current run
    rrRun,        \* the run: 1, 2
    rrStem,       \* the document: an index into Universe
    rrPages,      \* its pages
    rrSplitFails, \* the iteration at which split_pdf raises, 0 for never
    rrFates,      \* per half: what its collaborators do, in both runs
    rrTodo,       \* halves not yet processed in the current run
    rrFiles,      \* the files below cfg.output_dir: [path, content]
    rrWritten,    \* per run, the paths written
    rrFirst,      \* rrFiles at the end of the first run
    \* resolve_config and the CLI overrides of main
    cfgPc,        \* position of main() up to iter_pdfs; "invalid" once
                  \* resolve_config has raised ValueError
    dotenv,       \* the KEY=value lines of .env, per key: <<>> or <<value>>
    environ,      \* the environment main() is started in, per key
    args,         \* the parsed command line, per option: <<>> for None
    osEnviron,    \* os.environ
    config,       \* the local cfg of main()
    cfgOut,       \* what iter_pdfs returned or the exception raised
    \* process_half_page, step by step, per unit
    uPc,          \* position of process_half_page
    uErr,         \* the exception it raised, "none" if none
    uDir,         \* its page_dir
    uOcr,         \* how its yomitoku process ended
    uHtml,        \* its local html_path: <<>> or <<file>>
    uJson,        \* its json_target: "none", "empty" or "written"
    dirHtml,      \* per page_dir, the *.html files it holds
    clock         \* the file system's time

cvars == <<callPc, uploads, pdf_file, html_file, delIdx, raising, remote,
           deleteIssued>>
avars == <<ayPc, ayIn, ayTag, ayOut>>
wvars == <<wjPc, wjPayload, wjTag, wjOut>>
svars == <<spPc, spStem, spPages, spIdx, spHalves, spFiles>>
rvars == <<rrPc, rrRun, rrStem, rrPages, rrSplitFails, rrFates, rrTodo,
           rrFiles, rrWritten, rrFirst>>
gvars == <<cfgPc, dotenv, environ, args, osEnviron, config, cfgOut>>
uvars == <<uPc, uErr, uDir, uOcr, uHtml, uJson, dirHtml, clock>>
nvars == <<wvars, svars, rvars, gvars, uvars>>
other == <<cvars, avars, nvars>>
env == <<cfg, apiKey, promptOk>>

pvars == <<cfg, apiKey, promptOk, mainPc, runError, pdfs, docPc, docErr,
           halves, unitPc, unitErr, fs, errors>>

\* what an action of write_json / of split_pdf / of a rerun leaves alone
notW == <<pvars, cvars, avars, svars, rvars, gvars, uvars>>
notS == <<pvars, cvars, avars, wvars, rvars, gvars, uvars>>
notR == <<pvars, cvars, avars, wvars, svars, gvars, uvars>>
notG == <<pvars, cvars, avars, wvars, svars, rvars, uvars>>
notU == <<pvars, cvars, avars, wvars, svars, rvars, gvars>>

-----------------------------------------------------------------------------
(* Bounds and input domains *)

\* pages of the documents of one run, all together
MaxPages == 2

\* File stems of the PDFs that may be present, in sorted(folder.glob) order.
Universe == << <<"-">>, <<"a", "-", "b">>, <<"a", "_", "b">> >>

\* What sorted(folder.glob("*.pdf")) can be: sorted sub-lists of Universe.
Listings == { <<>>, <<1, 2>>, <<2, 3>> }

\* MAX_WORKERS / MAX_PAGE_WORKERS values (int() of any text: 0 is possible).
WorkerLimits == {0, 1, 2}

\* An unset option, a path that does not exist, a PDF file, a directory.
NoPath == [k |-> "none", v |-> <<>>]
MissingPath == [k |-> "missing", v |-> <<>>]
File(i) == [k |-> "file", v |-> <<i>>]
Dir(listing) == [k |-> "dir", v |-> listing]

-----------------------------------------------------------------------------
(* Text helpers *)

Letters == {"a", "b", "c", "d", "e", "f", "g", "j", "l", "n", "o", "p", "r", "s",
            "L", "R"}
DigitChars == <<"0", "1", "2", "3", "4", "5", "6", "7", "8", "9">>
Digits == {DigitChars[k] : k \in 1..10}

\* str.isalnum() on one character
IsAlnum(ch) == ch \in Letters \cup Digits

RECURSIVE Dec(_)
\* str(n) for n >= 0
Dec(n) == IF n < 10 THEN <<DigitChars[n + 1]>>
          ELSE Dec(n \div 10) \o <<DigitChars[(n % 10) + 1]>>

\* f"{n:02d}"
Pad2(n) == IF Len(Dec(n)) < 2 THEN <<"0">> \o Dec(n) ELSE Dec(n)

RECURSIVE LStrip(_, _)
LStrip(s, ch) == IF s # <<>> /\ Head(s) = ch THEN LStrip(Tail(s), ch) ELSE s

RECURSIVE RStrip(_, _)
RStrip(s, ch) == IF s # <<>> /\ s[Len(s)] = ch
                 THEN RStrip(SubSeq(s, 1, Len(s) - 1), ch) ELSE s

\* str.strip(ch)
Strip(s, ch) == RStrip(LStrip(s, ch), ch)

\* safe_name(path), on the path's stem
safe_name(stem) ==
    LET cleaned == [k \in 1..Len(stem) |->
                        IF IsAlnum(stem[k]) THEN stem[k] ELSE "_"]
        stripped == Strip(cleaned, "_")
    IN IF stripped # <<>> THEN stripped ELSE <<"p", "d", "f">>

\* HalfPage.label
label(half) == <<"p">> \o Pad2(half.page_index + 1) \o <<"_", half.side>>

Upper(side) == IF side = "l" THEN "L" ELSE "R"

\* a loop over the sides that takes the right side first
SplitHalvesRightFirst(n) ==
    [k \in 1..(2 * n) |->
        [page_index |-> (k - 1) \div 2,
         side |-> IF k % 2 = 1 THEN "r" ELSE "l"]]

\* split_pdf: the halves of an n-page document, in creation order
SplitHalves(n) ==
    [k \in 1..(2 * n) |->
        [page_index |-> (k - 1) \div 2,
         side |-> IF k % 2 = 1 THEN "l" ELSE "r"]]

RECURSIVE SumLen(_)
SumLen(seqs) == IF seqs = <<>> THEN 0 ELSE Len(Head(seqs)) + SumLen(Tail(seqs))

-----------------------------------------------------------------------------
(* Paths, below cfg.output_dir: a sequence of components *)

PdfPagesName == <<"p", "d", "f", "_", "p", "a", "g", "e", "s">>

\* split_pdf: out_dir / "pdf_pages" / f"{stem}_p{page_index + 1:02d}_{SIDE}.pdf"
HalfPdfPath(stem, half) ==
    << safe_name(stem), PdfPagesName,
       stem \o <<"_", "p">> \o Pad2(half.page_index + 1)
            \o <<"_", Upper(half.side), ".", "p", "d", "f">> >>

\* split_pdf: half_pdf.with_suffix(".png")
HalfPngPath(stem, half) ==
    << safe_name(stem), PdfPagesName,
       stem \o <<"_", "p">> \o Pad2(half.page_index + 1)
            \o <<"_", Upper(half.side), ".", "p", "n", "g">> >>

\* process_half_page: page_dir = cfg.output_dir / safe / half.label
PageDir(stem, half) == << safe_name(stem), label(half) >>

\* process_half_page: json_target = pdf_out / f"{stem}_{label}.json"
JsonTarget(stem, half) ==
    << safe_name(stem),
       stem \o <<"_">> \o label(half) \o <<".", "j", "s", "o", "n">> >>

Stem(i) == Universe[pdfs[i]]
Access(op, path, i, j) == [op |-> op, path |-> path, unit |-> <<i, j>>]

-----------------------------------------------------------------------------
(* main(): run-level preconditions *)

\* iter_pdfs(single, folder): [ok, pdfs]
iter_pdfs(single, folder) ==
    IF single.k # "none"
    THEN IF single.k = "missing" THEN [ok |-> FALSE, pdfs |-> <<>>]
         ELSE [ok |-> TRUE, pdfs |-> single.v]
    ELSE IF folder.k = "none" THEN [ok |-> FALSE, pdfs |-> <<>>]
    ELSE IF folder.k = "missing" THEN [ok |-> FALSE, pdfs |-> <<>>]
    ELSE IF folder.v = <<>> THEN [ok |-> FALSE, pdfs |-> <<>>]
    ELSE [ok |-> TRUE, pdfs |-> folder.v]

\* cfg.pdf and cfg.pdf_dir: every branch of iter_pdfs is taken by one of them.
Selections ==
    {<<NoPath, d>> : d \in {NoPath, MissingPath} \cup {Dir(l) : l \in Listings}}
    \cup {<<MissingPath, NoPath>>, <<MissingPath, Dir(<<1, 2>>)>>,
          <<File(3), NoPath>>, <<File(1), Dir(<<2, 3>>)>>}

Configs ==
    {[pdf |-> sel[1], pdf_dir |-> sel[2], max_workers |-> mw,
      max_page_workers |-> mpw] :
        sel \in Selections, mw \in WorkerLimits, mpw \in WorkerLimits}

PInit ==
    /\ cfg \in Configs
    /\ apiKey \in BOOLEAN
    /\ promptOk \in BOOLEAN
    /\ mainPc = "start"
    /\ runError = "none"
    /\ pdfs = <<>>
    /\ docPc = <<>>
    /\ docErr = <<>>
    /\ halves = <<>>
    /\ unitPc = <<>>
    /\ unitErr = <<>>
    /\ fs = {}
    /\ errors = EmptyBag

Raise(kind) ==
    /\ mainPc' = "raised"
    /\ runError' = kind

\* main: pdfs = iter_pdfs(cfg.pdf, cfg.pdf_dir)
MainIterPdfs ==
    /\ mainPc = "start"
    /\ LET r == iter_pdfs(cfg.pdf, cfg.pdf_dir)
       IN IF r.ok
          THEN /\ pdfs' = r.pdfs
               /\ mainPc' = "have_pdfs"
               /\ UNCHANGED runError
          ELSE /\ Raise("input")
               /\ UNCHANGED pdfs
    /\ UNCHANGED <<other, env, docPc, docErr, halves, unitPc,
                   unitErr, fs, errors>>

\* a main that does not check the credential
MainCheckKeySkipped ==
    /\ mainPc = "have_pdfs"
    /\ mainPc' = "have_key"
    /\ UNCHANGED <<other, env, runError, pdfs, docPc, docErr, halves, unitPc,
                   unitErr, fs, errors>>

\* main: if not api_key: raise EnvironmentError
MainCheckKey ==
    /\ mainPc = "have_pdfs"
    /\ IF apiKey
       THEN mainPc' = "have_key" /\ UNCHANGED runError
       ELSE Raise("credential")
    /\ UNCHANGED <<other, env, pdfs, docPc, docErr, halves, unitPc,
                   unitErr, fs, errors>>

\* main: prompt_text = cfg.prompt_path.read_text(); model = build_model(...)
MainReadPrompt ==
    /\ mainPc = "have_key"
    /\ IF promptOk
       THEN mainPc' = "have_prompt" /\ UNCHANGED runError
       ELSE Raise("prompt")
    /\ UNCHANGED <<other, env, pdfs, docPc, docErr, halves, unitPc,
                   unitErr, fs, errors>>

\* main: with ThreadPoolExecutor(max_workers=cfg.max_workers): submit all.
\* ThreadPoolExecutor raises ValueError for max_workers <= 0.
MainSubmit ==
    /\ mainPc = "have_prompt"
    /\ IF cfg.max_workers <= 0
       THEN /\ Raise("pool")
            /\ UNCHANGED <<docPc, docErr, halves, unitPc, unitErr>>
       ELSE /\ mainPc' = "sched"
            /\ UNCHANGED runError
            /\ docPc' = [i \in 1..Len(pdfs) |-> "queued"]
            /\ docErr' = [i \in 1..Len(pdfs) |-> "none"]
            /\ halves' = [i \in 1..Len(pdfs) |-> <<>>]
            /\ unitPc' = [i \in 1..Len(pdfs) |-> <<>>]
            /\ unitErr' = [i \in 1..Len(pdfs) |-> <<>>]
    /\ UNCHANGED <<other, env, pdfs, fs, errors>>

-----------------------------------------------------------------------------
(* The two worker pools *)

RunningDocs == {i \in DOMAIN docPc : docPc[i] \in {"split", "units"}}

RunningUnits(i) ==
    {j \in DOMAIN unitPc[i] : unitPc[i][j] \in {"ocr", "model", "write"}}

\* a pool that starts one worker too many
PoolHasIdleWorkerOffByOne(running, limit) == Cardinality(running) <= limit

\* ThreadPoolExecutor(max_workers=limit): a queued task is taken only by an
\* idle worker, and at most `limit` workers exist.
PoolHasIdleWorker(running, limit) == Cardinality(running) < limit

\* The pool's work queue is FIFO: task k is taken after every earlier task.
IsNextQueued(pcs, k) ==
    /\ pcs[k] = "queued"
    /\ \A m \in 1..(k - 1) : pcs[m] # "queued"

\* a report that names the first document of the batch
DocRecordFirst(i) == [level |-> "doc", doc |-> Stem(1), label |-> <<>>]

DocRecord(i) == [level |-> "doc", doc |-> Stem(i), label |-> <<>>]

\* a report that uses the half left over from the submission loop
ReportedHalfStale(i, j) == halves[i][Len(halves[i])]

\* process_pdf's except clause: half = futures[future]
ReportedHalf(i, j) == halves[i][j]

UnitRecord(i, j) ==
    [level |-> "unit", doc |-> Stem(i), label |-> label(ReportedHalf(i, j))]

-----------------------------------------------------------------------------
(* process_pdf: one task of the outer pool *)

\* a worker of the outer pool takes process_pdf(pdf) from the queue
DocStart(i) ==
    /\ mainPc = "sched"
    /\ i \in DOMAIN docPc
    /\ IsNextQueued(docPc, i)
    /\ PoolHasIdleWorker(RunningDocs, cfg.max_workers)
    /\ docPc' = [docPc EXCEPT ![i] = "split"]
    /\ UNCHANGED <<other, env, mainPc, runError, pdfs, docErr,
                   halves, unitPc, unitErr, fs, errors>>

\* pages of the documents split so far
PagesSplit == SumLen(halves) \div 2

\* The half PDFs and images of the halves split_pdf returns.
SplitWrites(i, n) ==
    UNION { { Access("w", HalfPdfPath(Stem(i), SplitHalves(n)[k]), i, k),
              Access("w", HalfPngPath(Stem(i), SplitHalves(n)[k]), i, k) }
            : k \in 1..(2 * n) }

\* process_pdf up to the submission of the halves: split_pdf on a document of
\* n pages either returns all 2n halves or raises (PdfReader, page geometry,
\* write or render error) and returns none; then the inner pool is created
\* (ValueError for max_page_workers <= 0) and every half submitted.
DocSplit(i) ==
    /\ i \in DOMAIN docPc
    /\ docPc[i] = "split"
    /\ \E n \in 0..(MaxPages - PagesSplit), ok \in BOOLEAN :
          IF ~ok
          THEN /\ docPc' = [docPc EXCEPT ![i] = "raised"]
               /\ docErr' = [docErr EXCEPT ![i] = "split"]
               /\ UNCHANGED <<halves, unitPc, unitErr, fs>>
          ELSE /\ halves' = [halves EXCEPT ![i] = SplitHalves(n)]
               /\ fs' = fs \cup SplitWrites(i, n)
               /\ IF cfg.max_page_workers <= 0
                  THEN /\ docPc' = [docPc EXCEPT ![i] = "raised"]
                       /\ docErr' = [docErr EXCEPT ![i] = "pool"]
                       /\ UNCHANGED <<unitPc, unitErr>>
                  ELSE /\ docPc' = [docPc EXCEPT ![i] = "units"]
                       /\ UNCHANGED docErr
                       /\ unitPc' = [unitPc EXCEPT
                                        ![i] = [k \in 1..(2 * n) |-> "queued"]]
                       /\ unitErr' = [unitErr EXCEPT
                                        ![i] = [k \in 1..(2 * n) |-> "none"]]
    /\ UNCHANGED <<other, env, mainPc, runError, pdfs, errors>>

-----------------------------------------------------------------------------
(* process_half_page: one task of the inner pool *)

\* a step of process_half_page raises: the future holds the exception
UnitFails(i, j) ==
    /\ unitPc' = [unitPc EXCEPT ![i][j] = "raised"]
    /\ unitErr' = [unitErr EXCEPT ![i][j] = "raised"]

\* a worker of the inner pool takes process_half_page(half) from the queue
UnitStart(i, j) ==
    /\ i \in DOMAIN unitPc
    /\ j \in DOMAIN unitPc[i]
    /\ IsNextQueued(unitPc[i], j)
    /\ PoolHasIdleWorker(RunningUnits(i), cfg.max_page_workers)
    /\ unitPc' = [unitPc EXCEPT ![i][j] = "ocr"]
    /\ UNCHANGED <<other, env, mainPc, runError, pdfs, docPc,
                   docErr, halves, unitErr, fs, errors>>

\* run_yomitoku: the subprocess reads the image and writes into page_dir;
\* CalledProcessError on a non-zero exit, FileNotFoundError without HTML.
UnitOcr(i, j) ==
    /\ i \in DOMAIN unitPc
    /\ j \in DOMAIN unitPc[i]
    /\ unitPc[i][j] = "ocr"
    /\ fs' = fs \cup { Access("w", PageDir(Stem(i), halves[i][j]), i, j),
                       Access("r", PageDir(Stem(i), halves[i][j]), i, j) }
    /\ \E ok \in BOOLEAN :
          IF ok
          THEN /\ unitPc' = [unitPc EXCEPT ![i][j] = "model"]
               /\ UNCHANGED unitErr
          ELSE UnitFails(i, j)
    /\ UNCHANGED <<other, env, mainPc, runError, pdfs, docPc,
                   docErr, halves, errors>>

\* call_gemini(model, prompt_text, half.pdf_path, html_path); its steps are
\* those of SpecCall
UnitModel(i, j) ==
    /\ i \in DOMAIN unitPc
    /\ j \in DOMAIN unitPc[i]
    /\ unitPc[i][j] = "model"
    /\ \E ok \in BOOLEAN :
          IF ok
          THEN /\ unitPc' = [unitPc EXCEPT ![i][j] = "write"]
               /\ UNCHANGED unitErr
          ELSE UnitFails(i, j)
    /\ UNCHANGED <<other, env, mainPc, runError, pdfs, docPc,
                   docErr, halves, fs, errors>>

\* write_json(json_target, gemini_text, year_tag); print("[DONE] ...")
UnitWrite(i, j) ==
    /\ i \in DOMAIN unitPc
    /\ j \in DOMAIN unitPc[i]
    /\ unitPc[i][j] = "write"
    /\ \E ok \in BOOLEAN :
          IF ok
          THEN /\ unitPc' = [unitPc EXCEPT ![i][j] = "done"]
               /\ fs' = fs \cup
                     { Access("w", JsonTarget(Stem(i), halves[i][j]), i, j) }
               /\ UNCHANGED unitErr
          ELSE /\ UnitFails(i, j)
               /\ UNCHANGED fs
    /\ UNCHANGED <<other, env, mainPc, runError, pdfs, docPc,
                   docErr, halves, errors>>

-----------------------------------------------------------------------------
(* process_pdf: for future in as_completed(futures) *)

\* except Exception as exc: print("[ERROR] {pdf} -> {half.label} failed")
UnitReport(i, j) ==
    /\ i \in DOMAIN unitPc
    /\ j \in DOMAIN unitPc[i]
    /\ docPc[i] = "units"
    /\ unitPc[i][j] = "raised"
    /\ unitPc' = [unitPc EXCEPT ![i][j] = "reported"]
    /\ errors' = errors (+) SetToBag({UnitRecord(i, j)})
    /\ UNCHANGED <<other, env, mainPc, runError, pdfs, docPc,
                   docErr, halves, unitErr, fs>>

\* a scheduler that stops waiting at the first completed future
UnitsSettledFirst(i) ==
    \/ unitPc[i] = <<>>
    \/ \E j \in DOMAIN unitPc[i] : unitPc[i][j] \in {"done", "reported"}

\* as_completed is exhausted and the with block has shut the pool down
\* (wait=True): every future has completed and every exception been handled.
\* future.result() of a unit that returned does nothing.
UnitsSettled(i) ==
    \A j \in DOMAIN unitPc[i] : unitPc[i][j] \in {"done", "reported"}

\* process_pdf returns
DocReturn(i) ==
    /\ i \in DOMAIN docPc
    /\ docPc[i] = "units"
    /\ UnitsSettled(i)
    /\ docPc' = [docPc EXCEPT ![i] = "returned"]
    /\ UNCHANGED <<other, env, mainPc, runError, pdfs, docErr,
                   halves, unitPc, unitErr, fs, errors>>

-----------------------------------------------------------------------------
(* main: for future in as_completed(futures) *)

\* a loop without the except clause: future.result() re-raises in main
DocReportReraise(i) ==
    /\ i \in DOMAIN docPc
    /\ mainPc = "sched"
    /\ docPc[i] = "raised"
    /\ mainPc' = "raised"
    /\ runError' = "document"
    /\ UNCHANGED <<other, env, pdfs, docPc, docErr, halves, unitPc, unitErr, fs,
                   errors>>

\* except Exception as exc: print("[ERROR] Processing {pdf.name} failed")
DocReport(i) ==
    /\ i \in DOMAIN docPc
    /\ mainPc = "sched"
    /\ docPc[i] = "raised"
    /\ docPc' = [docPc EXCEPT ![i] = "reported"]
    /\ errors' = errors (+) SetToBag({DocRecord(i)})
    /\ UNCHANGED <<other, env, mainPc, runError, pdfs, docErr,
                   halves, unitPc, unitErr, fs>>

DocsSettled == \A i \in DOMAIN docPc : docPc[i] \in {"returned", "reported"}

\* main returns
MainReturn ==
    /\ mainPc = "sched"
    /\ DocsSettled
    /\ mainPc' = "done"
    /\ UNCHANGED <<other, env, runError, pdfs, docPc, docErr,
                   halves, unitPc, unitErr, fs, errors>>

DocIds == 1..2
UnitIds == 1..(2 * MaxPages)

Next ==
    \/ MainIterPdfs
    \/ MainCheckKey
    \/ MainReadPrompt
    \/ MainSubmit
    \/ \E i \in DocIds : DocStart(i)
    \/ \E i \in DocIds : DocSplit(i)
    \/ \E i \in DocIds, j \in UnitIds : UnitStart(i, j)
    \/ \E i \in DocIds, j \in UnitIds : UnitOcr(i, j)
    \/ \E i \in DocIds, j \in UnitIds : UnitModel(i, j)
    \/ \E i \in DocIds, j \in UnitIds : UnitWrite(i, j)
    \/ \E i \in DocIds, j \in UnitIds : UnitReport(i, j)
    \/ \E i \in DocIds : DocReturn(i)
    \/ \E i \in DocIds : DocReport(i)
    \/ MainReturn

vars == <<pvars, cvars, avars, nvars>>

\* No call_gemini caller and no _attach_year input: the variables are parked.
CParked ==
    /\ callPc = <<>> /\ uploads = <<>> /\ pdf_file = <<>> /\ html_file = <<>>
    /\ delIdx = <<>> /\ raising = <<>> /\ remote = {} /\ deleteIssued = {}

AParked == ayPc = "off" /\ ayIn = <<>> /\ ayTag = <<>> /\ ayOut = <<>>

\* No write_json call.
WParked == wjPc = "off" /\ wjPayload = <<>> /\ wjTag = <<>> /\ wjOut = <<>>

\* No split_pdf call.
SParked ==
    /\ spPc = "off" /\ spStem = 0 /\ spPages = 0 /\ spIdx = 0
    /\ spHalves = <<>> /\ spFiles = {}

\* No rerun.
RParked ==
    /\ rrPc = "off" /\ rrRun = 0 /\ rrStem = 0 /\ rrPages = 0
    /\ rrSplitFails = 0 /\ rrFates = <<>> /\ rrTodo = {} /\ rrFiles = {}
    /\ rrWritten = <<>> /\ rrFirst = {}

\* No configuration is being resolved.
GParked ==
    /\ cfgPc = "off" /\ dotenv = <<>> /\ environ = <<>> /\ args = <<>>
    /\ osEnviron = <<>> /\ config = <<>> /\ cfgOut = <<>>

\* No unit is being stepped through.
UParked ==
    /\ uPc = <<>> /\ uErr = <<>> /\ uDir = <<>> /\ uOcr = <<>> /\ uHtml = <<>>
    /\ uJson = <<>> /\ dirHtml = <<>> /\ clock = 0

NParked == WParked /\ SParked /\ RParked /\ GParked /\ UParked

\* No run of main().
PParked ==
    /\ cfg = <<>> /\ apiKey = FALSE /\ promptOk = FALSE /\ mainPc = "off"
    /\ runError = "none" /\ pdfs = <<>> /\ docPc = <<>> /\ docErr = <<>>
    /\ halves = <<>> /\ unitPc = <<>> /\ unitErr = <<>> /\ fs = {}
    /\ errors = EmptyBag

Init == PInit /\ CParked /\ AParked /\ NParked
Spec == Init /\ [][Next]_vars

\* The pools' threads are scheduled by the operating system and, as the
\* claims about termination assume, every collaborator call returns or fails:
\* a step that can be taken is eventually taken.
FairSpec == Spec /\ WF_vars(Next)

-----------------------------------------------------------------------------
(* call_gemini *)

\* threads inside call_gemini at once
MaxCallers == 2

Callers == 1..MaxCallers

\* genai.upload_file creates a new remote file on every call
RemoteFile(c, what) == <<c, what>>

CInit ==
    /\ callPc = [c \in Callers |-> "upload_pdf"]
    /\ uploads = [c \in Callers |-> <<>>]
    /\ pdf_file = [c \in Callers |-> <<>>]
    /\ html_file = [c \in Callers |-> <<>>]
    /\ delIdx = [c \in Callers |-> 1]
    /\ raising = [c \in Callers |-> FALSE]
    /\ remote = {}
    /\ deleteIssued = {}

\* an exception leaves the try block: control enters the finally block
CallThrows(c) ==
    /\ callPc' = [callPc EXCEPT ![c] = "finally"]
    /\ raising' = [raising EXCEPT ![c] = TRUE]

\* pdf_file = upload_file(pdf_path)
CallUploadPdf(c) ==
    /\ callPc[c] = "upload_pdf"
    /\ \E ok \in BOOLEAN :
          IF ok
          THEN /\ pdf_file' = [pdf_file EXCEPT ![c] = RemoteFile(c, "pdf")]
               /\ remote' = remote \cup {RemoteFile(c, "pdf")}
               /\ callPc' = [callPc EXCEPT ![c] = "upload_html"]
               /\ UNCHANGED raising
          ELSE /\ CallThrows(c)
               /\ UNCHANGED <<pdf_file, remote>>
    /\ UNCHANGED <<pvars, avars, nvars, uploads, html_file, delIdx, deleteIssued>>

\* html_file = upload_file(html_path); uploads.extend([pdf_file, html_file])
CallUploadHtml(c) ==
    /\ callPc[c] = "upload_html"
    /\ \E ok \in BOOLEAN :
          IF ok
          THEN /\ html_file' = [html_file EXCEPT ![c] = RemoteFile(c, "html")]
               /\ remote' = remote \cup {RemoteFile(c, "html")}
               /\ uploads' = [uploads EXCEPT
                      ![c] = @ \o <<pdf_file[c], RemoteFile(c, "html")>>]
               /\ callPc' = [callPc EXCEPT ![c] = "generate"]
               /\ UNCHANGED raising
          ELSE /\ CallThrows(c)
               /\ UNCHANGED <<html_file, remote, uploads>>
    /\ UNCHANGED <<pvars, avars, nvars, pdf_file, delIdx, deleteIssued>>

\* response = model.generate_content(...); return response.text or ""
CallGenerate(c) ==
    /\ callPc[c] = "generate"
    /\ \E ok \in BOOLEAN :
          IF ok
          THEN /\ callPc' = [callPc EXCEPT ![c] = "finally"]
               /\ UNCHANGED raising
          ELSE CallThrows(c)
    /\ UNCHANGED <<pvars, avars, nvars, uploads, pdf_file, html_file, delIdx, remote,
                   deleteIssued>>

\* finally: for uploaded in uploads: try: genai.delete_file(uploaded.name)
\* except Exception: pass
CallDelete(c) ==
    /\ callPc[c] = "finally"
    /\ delIdx[c] <= Len(uploads[c])
    /\ deleteIssued' = deleteIssued \cup {uploads[c][delIdx[c]]}
    /\ \E ok \in BOOLEAN :
          remote' = IF ok THEN remote \ {uploads[c][delIdx[c]]} ELSE remote
    /\ delIdx' = [delIdx EXCEPT ![c] = @ + 1]
    /\ UNCHANGED <<pvars, avars, nvars, callPc, uploads, pdf_file, html_file, raising>>

\* the finally block ends: call_gemini returns the text or re-raises
CallEnd(c) ==
    /\ callPc[c] = "finally"
    /\ delIdx[c] > Len(uploads[c])
    /\ callPc' = [callPc EXCEPT
                    ![c] = IF raising[c] THEN "raised" ELSE "returned"]
    /\ UNCHANGED <<pvars, avars, nvars, uploads, pdf_file, html_file, delIdx, raising,
                   remote, deleteIssued>>

NextCall ==
    \/ \E c \in Callers : CallUploadPdf(c)
    \/ \E c \in Callers : CallUploadHtml(c)
    \/ \E c \in Callers : CallGenerate(c)
    \/ \E c \in Callers : CallDelete(c)
    \/ \E c \in Callers : CallEnd(c)

InitCall == PParked /\ CInit /\ AParked /\ NParked
SpecCall == InitCall /\ [][NextCall]_vars

-----------------------------------------------------------------------------
(* _attach_year *)

\* entries of a decoded mapping, elements of a decoded sequence
MaxKeys == 2
MaxItems == 2

\* Decoded JSON values.  A mapping is its entries in insertion order, as a
\* Python dict keeps them; keys are unique.
JStr(x) == [t |-> "str", s |-> x, items |-> <<>>]
JNum(x) == [t |-> "num", s |-> x, items |-> <<>>]
JDict(entries) == [t |-> "dict", s |-> "", items |-> entries]
JList(elems) == [t |-> "list", s |-> "", items |-> elems]
Entry(k, v) == [key |-> k, value |-> v]

\* year_tag: Optional[str]
NoTag == [some |-> FALSE, s |-> ""]
Tag(x) == [some |-> TRUE, s |-> x]

\* Python truthiness of year_tag: None and "" are falsy
Truthy(tag) == tag.some /\ tag.s # ""

Keys == {"year", "a", "b"}
Scalars == {JNum("1"), JStr("X"), JStr("1999")}

SeqsUpTo(S, n) == UNION {[1..m -> S] : m \in 0..n}

UniqueKeys(entries) ==
    \A m, n \in 1..Len(entries) : entries[m].key = entries[n].key => m = n

DictsOver(values, n) ==
    {JDict(e) : e \in {x \in SeqsUpTo({Entry(k, v) : k \in Keys, v \in values}, n)
                          : UniqueKeys(x)}}

\* values of an entry: scalars, a nested mapping, a nested sequence
InnerValues ==
    Scalars \cup {JDict(<<Entry("year", JStr("X"))>>),
                  JList(<<JDict(<<Entry("a", JNum("1"))>>)>>)}

Dicts == DictsOver(InnerValues, MaxKeys)

\* elements of a sequence: scalars, mappings, a nested sequence
Elements ==
    {JNum("1"), JStr("X")} \cup DictsOver({JNum("1"), JStr("X")}, 1)
    \cup {JDict(<<Entry("a", JNum("1")), Entry("year", JStr("X"))>>),
          JDict(<<Entry("year", JStr("X")), Entry("b", JNum("1"))>>),
          JList(<<JDict(<<Entry("a", JNum("1"))>>)>>)}

Lists == {JList(e) : e \in SeqsUpTo(Elements, MaxItems)}

Tags == {NoTag, Tag(""), Tag("1999"), Tag("X")}

HasKey(entries, k) == \E m \in 1..Len(entries) : entries[m].key = k

RECURSIVE DictUpdate(_, _)
\* dict.update(other): a key already present keeps its place and takes the
\* new value, a new key is appended
DictUpdate(entries, updates) ==
    IF updates = <<>> THEN entries
    ELSE LET e == Head(updates)
             next == IF HasKey(entries, e.key)
                     THEN [m \in 1..Len(entries) |->
                              IF entries[m].key = e.key THEN e ELSE entries[m]]
                     ELSE Append(entries, e)
         IN DictUpdate(next, Tail(updates))

\* a remainder that keeps the embedded year
RemainderKeepsYear(entries) == entries

\* remainder = {key: value for key, value in parsed.items() if key != "year"}
Remainder(entries) == SelectSeq(entries, LAMBDA e : e.key # "year")

\* ordered = {"year": year_tag}; ordered.update(remainder)
Ordered(entries, year_tag) ==
    DictUpdate(<<Entry("year", JStr(year_tag.s))>>, Remainder(entries))

\* a loop without the else branch: only the mappings are appended
AttachListMappingsOnly(elems, year_tag) ==
    LET dicts == SelectSeq(elems, LAMBDA e : e.t = "dict")
    IN [m \in 1..Len(dicts) |->
           JDict(DictUpdate(<<Entry("year", JStr(year_tag.s))>>,
                            SelectSeq(dicts[m].items, LAMBDA e : e.key # "year")))]

\* the isinstance(parsed, list) branch
AttachList(elems, year_tag) ==
    [m \in 1..Len(elems) |->
        IF elems[m].t = "dict"
        THEN JDict(Ordered(elems[m].items, year_tag))
        ELSE elems[m]]

\* _attach_year(parsed, year_tag)
attach_year(parsed, year_tag) ==
    IF ~Truthy(year_tag) THEN parsed
    ELSE IF parsed.t = "dict" THEN JDict(Ordered(parsed.items, year_tag))
    ELSE IF parsed.t = "list" THEN JList(AttachList(parsed.items, year_tag))
    ELSE parsed

AInit ==
    /\ ayPc = "call"
    /\ ayIn \in Dicts \cup Lists \cup Scalars
    /\ ayTag \in Tags
    /\ ayOut = <<>>

\* parsed = _attach_year(parsed, year_tag)
AttachYear ==
    /\ ayPc = "call"
    /\ ayOut' = attach_year(ayIn, ayTag)
    /\ ayPc' = "returned"
    /\ UNCHANGED <<pvars, cvars, nvars, ayIn, ayTag>>

InitAttach == PParked /\ CParked /\ AInit /\ NParked
NextAttach == AttachYear
SpecAttach == InitAttach /\ [][NextAttach]_vars

-----------------------------------------------------------------------------
(* Properties of the pipeline (Spec, FairSpec) *)

JsonWritten(i, j) ==
    Access("w", JsonTarget(Stem(i), halves[i][j]), i, j) \in fs

UnitLine(i, j) ==
    [level |-> "unit", doc |-> Stem(i), label |-> label(halves[i][j])]

DocLine(i) == [level |-> "doc", doc |-> Stem(i), label |-> <<>>]

DocEnded(i) == docPc[i] \in {"returned", "raised", "reported"}

\* C1 (unit isolation): when process_pdf has ended for a document whose
\* halves were submitted, every half none of whose own steps raised has its
\* JSON result written, every half one of whose steps raised is reported by
\* exactly one [ERROR] line carrying its own label, and there is no other
\* unit-level line for the document.
UnitIsolation ==
    \A i \in DOMAIN docPc :
        (DocEnded(i) /\ unitPc[i] # <<>>) =>
            /\ \A j \in DOMAIN unitPc[i] :
                  /\ unitErr[i][j] = "none" =>
                        unitPc[i][j] = "done" /\ JsonWritten(i, j)
                  /\ unitErr[i][j] # "none" =>
                        /\ unitPc[i][j] = "reported"
                        /\ ~JsonWritten(i, j)
                        /\ CopiesIn(UnitLine(i, j), errors) = 1
            /\ \A r \in BagToSet(errors) :
                  (r.level = "unit" /\ r.doc = Stem(i)) =>
                      \E j \in DOMAIN unitPc[i] :
                          unitErr[i][j] # "none" /\ r = UnitLine(i, j)

\* a document has returned with its left half failed and its right half
\* written, and with its right half failed and its left half written
UnitIsolationWitness ==
    \E i \in DOMAIN docPc :
        /\ docPc[i] = "returned"
        /\ Len(unitPc[i]) >= 2
        /\ unitPc[i][1] = "reported"
        /\ unitPc[i][2] = "done"
        /\ JsonWritten(i, 2)

\* C2 (no shared path): no file or page directory is used by two distinct
\* units, of the same or of different documents of the batch.
NoSharedPath ==
    \A a, b \in fs : a.path = b.path => a.unit = b.unit

\* C4 (document isolation): a document whose split failed never has a unit;
\* when main has ended after submitting, that failure is recorded by exactly
\* one document-level line carrying its name, and every document that did not
\* fail itself has returned with all its halves split and settled.
DocumentIsolation ==
    \A i \in DOMAIN docPc :
        /\ docErr[i] = "split" =>
              /\ unitPc[i] = <<>>
              /\ halves[i] = <<>>
              /\ \A a \in fs : a.unit[1] # i
        /\ mainPc \in {"done", "raised"} =>
              /\ docErr[i] = "split" => CopiesIn(DocLine(i), errors) = 1
              /\ docErr[i] = "none" =>
                    /\ docPc[i] = "returned"
                    /\ Len(unitPc[i]) = Len(halves[i])
                    /\ \A j \in DOMAIN unitPc[i] :
                          unitPc[i][j] \in {"done", "reported"}
                    /\ CopiesIn(DocLine(i), errors) = 0

\* the second document failed to split, the first was processed, main ended
DocumentIsolationWitness ==
    /\ mainPc = "done"
    /\ Len(docPc) = 2
    /\ docErr[2] = "split"
    /\ docErr[1] = "none"
    /\ Len(unitPc[1]) >= 2
    /\ unitPc[1][1] = "done"

TotalRunningUnits == SumLen([i \in DOMAIN unitPc |->
                                SelectSeq(unitPc[i],
                                    LAMBDA pc : pc \in {"ocr", "model", "write"})])

\* C5 (bounded concurrency): at most max_workers documents and, per document,
\* at most max_page_workers halves are being processed at once, so at most
\* max_workers * max_page_workers halves over the whole run.
BoundedConcurrency ==
    /\ Cardinality({i \in DOMAIN docPc : docPc[i] \in {"split", "units"}})
          <= cfg.max_workers
    /\ \A i \in DOMAIN unitPc :
          Cardinality({j \in DOMAIN unitPc[i] :
                          unitPc[i][j] \in {"ocr", "model", "write"}})
              <= cfg.max_page_workers
    /\ TotalRunningUnits <= cfg.max_workers * cfg.max_page_workers

\* both pools are full and hold a queued task
BoundedConcurrencyWitness ==
    /\ Len(docPc) = 2
    /\ docPc[1] = "units"
    /\ docPc[2] = "queued"
    /\ cfg.max_workers = 1
    /\ Len(unitPc[1]) = 2
    /\ unitPc[1][1] \in {"ocr", "model", "write"}
    /\ unitPc[1][2] = "queued"
    /\ cfg.max_page_workers = 1

UnitSubmitted(i, j) == i \in DOMAIN unitPc /\ j \in DOMAIN unitPc[i]
UnitOutcome(i, j) == UnitSubmitted(i, j) /\ unitPc[i][j] \in {"done", "reported"}
DocSubmitted(i) == i \in DOMAIN docPc
DocOutcome(i) == DocSubmitted(i) /\ docPc[i] \in {"returned", "reported"}

AllSettled ==
    /\ \A i \in DocIds : \A j \in UnitIds : UnitSubmitted(i, j) => UnitOutcome(i, j)
    /\ \A i \in DocIds : DocSubmitted(i) => DocOutcome(i)

\* C6 (fan-in completeness): every submitted half and every submitted
\* document eventually reaches an outcome (success, or a reported failure)
\* and keeps it; process_pdf returns only when all halves of the document
\* have theirs, and main only when all documents have theirs.  A submitted
\* task stays submitted and an outcome is kept, so "each submitted task
\* eventually has its outcome" is "from some point on, all of them have".
FanInComplete ==
    /\ <>[]AllSettled
    /\ [][\A i \in DocIds : \A j \in UnitIds :
             UnitOutcome(i, j) => unitPc'[i][j] = unitPc[i][j]]_vars
    /\ [][\A i \in DocIds : DocOutcome(i) => docPc'[i] = docPc[i]]_vars
    /\ [](\A i \in DocIds :
             (DocSubmitted(i) /\ docPc[i] = "returned") =>
                 \A j \in DOMAIN unitPc[i] : UnitOutcome(i, j))
    /\ [](mainPc = "done" => \A i \in DOMAIN docPc : DocOutcome(i))

\* main has returned after two documents, one of them with a written and a
\* failed half
FanInCompleteWitness ==
    /\ mainPc = "done"
    /\ Len(docPc) = 2
    /\ \E i \in DOMAIN docPc :
          /\ docPc[i] = "returned"
          /\ Len(unitPc[i]) = 2
          /\ unitPc[i][1] = "done"
          /\ unitPc[i][2] = "reported"

\* C7 (nothing unwinds past the batch scheduler): once the documents are
\* submitted main raises nothing and ends by returning, with every unit
\* failure recorded by a unit-level line and every document failure by a
\* document-level line.
NoFailureEscapes ==
    /\ [][mainPc = "sched" => mainPc' \in {"sched", "done"}]_vars
    /\ (mainPc = "sched") ~> (mainPc = "done")
    /\ [](mainPc = "done" =>
             \A i \in DOMAIN docPc :
                /\ CopiesIn(DocLine(i), errors) =
                       IF docErr[i] = "none" THEN 0 ELSE 1
                /\ \A j \in DOMAIN unitPc[i] :
                       CopiesIn(UnitLine(i, j), errors) =
                           IF unitErr[i][j] = "none" THEN 0 ELSE 1)

\* main returned although one document failed to split and a half of the
\* other one failed
NoFailureEscapesWitness ==
    /\ mainPc = "done"
    /\ Len(docPc) = 2
    /\ docErr[1] = "split"
    /\ Len(unitErr[2]) = 2
    /\ unitErr[2][1] = "raised"
    /\ unitErr[2][2] = "none"

CredentialMissing == ~apiKey
PromptUnreadable == ~promptOk
InputMissing ==
    \/ cfg.pdf.k = "missing"
    \/ /\ cfg.pdf.k = "none"
       /\ \/ cfg.pdf_dir.k \in {"none", "missing"}
          \/ cfg.pdf_dir.v = <<>>

\* C8 (run-level failures abort first): with the credential missing, the
\* input selection missing, empty or not found, or the prompt unreadable, no
\* document is submitted or split, no half is processed, nothing is written,
\* and when main has stopped it has raised.
RunLevelAbort ==
    (CredentialMissing \/ PromptUnreadable \/ InputMissing) =>
        /\ mainPc \notin {"sched", "done"}
        /\ docPc = <<>> /\ halves = <<>> /\ unitPc = <<>>
        /\ fs = {}
        /\ errors = EmptyBag
        /\ (~ENABLED Next) => mainPc = "raised"

\* the prompt could not be read, with documents found and the credential set
RunLevelAbortWitness ==
    /\ mainPc = "raised"
    /\ runError = "prompt"
    /\ Len(pdfs) = 2
    /\ apiKey

-----------------------------------------------------------------------------
(* Properties of call_gemini (SpecCall) *)

Uploaded(c) == {pdf_file[c], html_file[c]} \ {<<>>}

\* C3 (upload cleanup): when call_gemini has returned or raised, a delete
\* has been issued for every file the call uploaded.
UploadCleanup ==
    \A c \in DOMAIN callPc :
        callPc[c] \in {"returned", "raised"} => Uploaded(c) \subseteq deleteIssued

-----------------------------------------------------------------------------
(* Properties of _attach_year (SpecAttach) *)

\* out is the mapping: year |-> tag first, then the entries of orig other
\* than year, in their order and with their values
Stamped(orig, out, tag) ==
    /\ out.t = "dict"
    /\ Len(out.items) >= 1
    /\ out.items[1] = Entry("year", JStr(tag.s))
    /\ Tail(out.items) = SelectSeq(orig.items, LAMBDA e : e.key # "year")

\* C9 (provenance precedence): for a decoded mapping and a non-empty tag the
\* result is year |-> tag followed by the other original entries, unchanged
\* and in order.
ProvenancePrecedence ==
    (ayPc = "returned" /\ ayIn.t = "dict" /\ Truthy(ayTag)) =>
        Stamped(ayIn, ayOut, ayTag)

\* a mapping whose second key is year, with another value than the tag
ProvenancePrecedenceWitness ==
    /\ ayPc = "returned"
    /\ ayTag = Tag("1999")
    /\ ayIn = JDict(<<Entry("a", JDict(<<Entry("year", JStr("X"))>>)),
                      Entry("year", JStr("X"))>>)
    /\ ayOut = JDict(<<Entry("year", JStr("1999")),
                       Entry("a", JDict(<<Entry("year", JStr("X"))>>))>>)

SequenceStamped(tag) ==
    /\ ayOut.t = "list"
    /\ Len(ayOut.items) = Len(ayIn.items)
    /\ \A m \in 1..Len(ayIn.items) :
          IF ayIn.items[m].t = "dict"
          THEN Stamped(ayIn.items[m], ayOut.items[m], tag)
          ELSE ayOut.items[m] = ayIn.items[m]

-----------------------------------------------------------------------------
(* Text of the model's answer *)

\* A text is a sequence of characters, each a string.  Two characters are
\* written by name: the backtick, and U+FEFF, the byte-order mark.
Tick == "BACKTICK"
BOM == "BOM"

\* the characters str.strip(), str.lstrip() and \s take for whitespace
Whitespace == {" ", "\n", "\t"}

RECURSIVE LStripChars(_, _)
\* str.lstrip(chars)
LStripChars(s, chars) ==
    IF s # <<>> /\ Head(s) \in chars THEN LStripChars(Tail(s), chars) ELSE s

RECURSIVE RStripChars(_, _)
RStripChars(s, chars) ==
    IF s # <<>> /\ s[Len(s)] \in chars
    THEN RStripChars(SubSeq(s, 1, Len(s) - 1), chars) ELSE s

\* str.strip()
StripText(s) == RStripChars(LStripChars(s, Whitespace), Whitespace)

\* re.IGNORECASE on the letters of the fence tags
LowerOf == [c \in {"J", "S", "O", "N", "A", "V", "C", "R", "I", "P", "T"} |->
              CASE c = "J" -> "j" [] c = "S" -> "s" [] c = "O" -> "o"
                [] c = "N" -> "n" [] c = "A" -> "a" [] c = "V" -> "v"
                [] c = "C" -> "c" [] c = "R" -> "r" [] c = "I" -> "i"
                [] c = "P" -> "p" [] c = "T" -> "t"]

Lower(c) == IF c \in DOMAIN LowerOf THEN LowerOf[c] ELSE c

\* the literal lit occurs in s at position i, letter case ignored
Occurs(s, i, lit) ==
    /\ i >= 1
    /\ i + Len(lit) - 1 <= Len(s)
    /\ \A k \in 1..Len(lit) : Lower(s[i + k - 1]) = Lower(lit[k])

RECURSIVE SkipSpace(_, _)
\* \s* taken greedily from position i: the position after the run
SkipSpace(s, i) ==
    IF i <= Len(s) /\ s[i] \in Whitespace THEN SkipSpace(s, i + 1) ELSE i

Fence == <<Tick, Tick, Tick>>

\* (?:json|javascript|js)? : the alternatives in the order the regex tries them
FenceTags == << <<"j", "s", "o", "n">>,
                <<"j", "a", "v", "a", "s", "c", "r", "i", "p", "t">>,
                <<"j", "s">>,
                <<>> >>

NoMatch == [found |-> FALSE, group |-> <<>>]

\* \s*([\s\S]+?)\s*``` from position p.  The first \s* is greedy: it gives
\* characters back one by one; the group is lazy: it grows one by one; the
\* second \s* is followed by a backtick, so only its longest run can match.
FenceBody(s, p) ==
    LET Closes(e) == Occurs(s, SkipSpace(s, e + 1), Fence)
        starts == {g \in p..SkipSpace(s, p) :
                      \E e \in g..Len(s) : Closes(e)}
    IN IF starts = {} THEN NoMatch
       ELSE LET g == CHOOSE x \in starts : \A y \in starts : y <= x
                e == CHOOSE x \in g..Len(s) :
                        Closes(x) /\ \A y \in g..(x - 1) : ~Closes(y)
            IN [found |-> TRUE, group |-> SubSeq(s, g, e)]

\* CODE_FENCE.match at position i
FenceAt(s, i) ==
    IF ~Occurs(s, i, Fence) THEN NoMatch
    ELSE LET Try(a) == IF Occurs(s, i + 3, FenceTags[a])
                       THEN FenceBody(s, i + 3 + Len(FenceTags[a]))
                       ELSE NoMatch
             hits == {a \in 1..Len(FenceTags) : Try(a).found}
         IN IF hits = {} THEN NoMatch
            ELSE Try(CHOOSE a \in hits : \A b \in hits : a <= b)

\* CODE_FENCE.search(text): the match at the leftmost position that has one
FenceSearch(s) ==
    LET at == {i \in 1..Len(s) : FenceAt(s, i).found}
    IN IF at = {} THEN NoMatch
       ELSE FenceAt(s, CHOOSE i \in at : \A k \in at : i <= k)

-----------------------------------------------------------------------------
(* json.JSONDecoder().raw_decode *)

RECURSIVE Join(_)
\* "".join(chars): the str that _attach_year compares with "year" and ""
Join(chars) == IF chars = <<>> THEN "" ELSE Head(chars) \o Join(Tail(chars))

\* Decoded values of write_json.  A str and a number carry their characters
\* in items along with the joined string in s; an entry of a mapping carries
\* the characters of its key.
TStr(chars) == [t |-> "str", s |-> Join(chars), items |-> chars]
TNum(chars) == [t |-> "num", s |-> Join(chars), items |-> chars]
TTrue == [t |-> "true", s |-> "", items |-> <<>>]
TFalse == [t |-> "false", s |-> "", items |-> <<>>]
TNull == [t |-> "null", s |-> "", items |-> <<>>]
TEntry(chars, v) == [key |-> Join(chars), value |-> v, chars |-> chars]

\* A decoding that raised JSONDecodeError (StopIteration inside the scanner).
DecodeError == [ok |-> FALSE, v |-> TNull, end |-> 0]
Decoded(v, end) == [ok |-> TRUE, v |-> v, end |-> end]

HexChars == <<"0", "1", "2", "3", "4", "5", "6", "7", "8", "9",
              "a", "b", "c", "d", "e", "f">>
HexUpper == <<"A", "B", "C", "D", "E", "F">>

IsHex(c) == (\E k \in 1..16 : HexChars[k] = c) \/ (\E k \in 1..6 : HexUpper[k] = c)

HexValue(c) ==
    IF \E k \in 1..16 : HexChars[k] = c
    THEN (CHOOSE k \in 1..16 : HexChars[k] = c) - 1
    ELSE (CHOOSE k \in 1..6 : HexUpper[k] = c) + 9

\* the four hex digits of a \uXXXX escape whose "u" is at position i; -1 if
\* they are not four hex digits
CodeUnit(s, i) ==
    IF i + 4 <= Len(s) /\ \A k \in 1..4 : IsHex(s[i + k])
    THEN 4096 * HexValue(s[i + 1]) + 256 * HexValue(s[i + 2])
         + 16 * HexValue(s[i + 3]) + HexValue(s[i + 4])
    ELSE -1

HighSurrogates == 55296..56319
LowSurrogates == 56320..57343

\* code points of the characters that texts of the model are made of
CodePoints == [c \in {"\t", "\n", " ", "\"", "0", "1", "A", "[", "\\", "]",
                      "a", "x", "{", "}"} |->
                 CASE c = "\t" -> 9 [] c = "\n" -> 10 [] c = " " -> 32
                   [] c = "\"" -> 34 [] c = "0" -> 48 [] c = "1" -> 49
                   [] c = "A" -> 65 [] c = "[" -> 91 [] c = "\\" -> 92
                   [] c = "]" -> 93 [] c = "a" -> 97 [] c = "x" -> 120
                   [] c = "{" -> 123 [] c = "}" -> 125]

\* chr(code): any other character is written U+<code>
Chr(code) ==
    IF \E c \in DOMAIN CodePoints : CodePoints[c] = code
    THEN CHOOSE c \in DOMAIN CodePoints : CodePoints[c] = code
    ELSE "U+" \o ToString(code)

\* the characters U+D800 .. U+DFFF, which no UTF-8 encoder accepts
SurrogateChars == {Chr(code) : code \in HighSurrogates \cup LowSurrogates}

\* control characters other than tab and newline, which a decoded str can
\* hold (from an escape) and json.dumps writes as \u00XX
ControlChars == {Chr(code) : code \in (0..31) \ {9, 10}}

\* BACKSLASH of json.decoder, on the escapes whose character the model has
SimpleEscapes == [c \in {"\"", "\\", "/", "n", "t"} |->
                    CASE c = "\"" -> "\"" [] c = "\\" -> "\\" [] c = "/" -> "/"
                      [] c = "n" -> "\n" [] c = "t" -> "\t"]

RECURSIVE ScanString(_, _, _)
\* scanstring(s, end, strict=True), from the position after the opening
\* quote: [ok, v: the characters, end: the position after the closing quote]
ScanString(s, i, acc) ==
    IF i > Len(s) THEN DecodeError
    ELSE IF s[i] = "\"" THEN [ok |-> TRUE, v |-> acc, end |-> i + 1]
    ELSE IF s[i] \in {"\n", "\t"} \cup ControlChars THEN DecodeError
    ELSE IF s[i] # "\\" THEN ScanString(s, i + 1, Append(acc, s[i]))
    ELSE IF i + 1 > Len(s) THEN DecodeError
    ELSE IF s[i + 1] = "u"
         THEN LET uni == CodeUnit(s, i + 1)
                  uni2 == IF i + 7 <= Len(s) /\ s[i + 6] = "\\" /\ s[i + 7] = "u"
                          THEN CodeUnit(s, i + 7) ELSE -1
              IN IF uni = -1 THEN DecodeError
                 ELSE IF uni \in HighSurrogates /\ uni2 \in LowSurrogates
                 THEN ScanString(s, i + 12,
                          Append(acc, Chr(65536 + (uni - 55296) * 1024
                                                + (uni2 - 56320))))
                 ELSE ScanString(s, i + 6, Append(acc, Chr(uni)))
    ELSE IF s[i + 1] \in DOMAIN SimpleEscapes
         THEN ScanString(s, i + 2, Append(acc, SimpleEscapes[s[i + 1]]))
    ELSE DecodeError

RECURSIVE ToInt(_)
\* int(digits)
ToInt(digits) ==
    IF digits = <<>> THEN 0
    ELSE 10 * ToInt(SubSeq(digits, 1, Len(digits) - 1))
         + (CHOOSE k \in 0..9 : DigitChars[k + 1] = digits[Len(digits)])

RECURSIVE SkipDigits(_, _)
SkipDigits(s, i) ==
    IF i <= Len(s) /\ s[i] \in Digits THEN SkipDigits(s, i + 1) ELSE i

\* NUMBER_RE.match(s, i): (-?(?:0|[1-9]\d*)); the texts of the model hold no
\* "." and no exponent, so that every number is an int
ScanNumber(s, i) ==
    LET neg == i <= Len(s) /\ s[i] = "-"
        d == IF neg THEN i + 1 ELSE i
        end == IF d <= Len(s) /\ s[d] = "0" THEN d + 1 ELSE SkipDigits(s, d)
        n == ToInt(SubSeq(s, d, end - 1))
    IN IF d > Len(s) \/ s[d] \notin Digits THEN DecodeError
       ELSE Decoded(TNum((IF neg /\ n # 0 THEN <<"-">> ELSE <<>>) \o Dec(n)), end)

\* s[i:i + len(lit)] == lit
Has(s, i, lit) ==
    i + Len(lit) - 1 <= Len(s) /\ SubSeq(s, i, i + Len(lit) - 1) = lit

NullText == <<"n", "u", "l", "l">>
TrueText == <<"t", "r", "u", "e">>
FalseText == <<"f", "a", "l", "s", "e">>
NaNText == <<"N", "a", "N">>
InfinityText == <<"I", "n", "f", "i", "n", "i", "t", "y">>

RECURSIVE ScanOnce(_, _)
RECURSIVE ObjectPairs(_, _, _)
RECURSIVE ArrayItems(_, _, _)

\* JSONObject after the key's opening quote: "key" : value, then "," or "}".
\* dict(pairs): a repeated key keeps its first place and takes the last value.
ObjectPairs(s, i, pairs) ==
    LET k == ScanString(s, i, <<>>)
        colon == SkipSpace(s, k.end)
        val == ScanOnce(s, SkipSpace(s, colon + 1))
        e == SkipSpace(s, val.end)
        all == Append(pairs, TEntry(k.v, val.v))
        q == SkipSpace(s, e + 1)
    IN IF ~k.ok THEN DecodeError
       ELSE IF colon > Len(s) \/ s[colon] # ":" THEN DecodeError
       ELSE IF ~val.ok THEN DecodeError
       ELSE IF e > Len(s) THEN DecodeError
       ELSE IF s[e] = "}" THEN Decoded(JDict(DictUpdate(<<>>, all)), e + 1)
       ELSE IF s[e] # "," THEN DecodeError
       ELSE IF q > Len(s) \/ s[q] # "\"" THEN DecodeError
       ELSE ObjectPairs(s, q + 1, all)

\* JSONObject after the "{"
ParseObject(s, i) ==
    LET j == SkipSpace(s, i)
    IN IF j > Len(s) THEN DecodeError
       ELSE IF s[j] = "}" THEN Decoded(JDict(<<>>), j + 1)
       ELSE IF s[j] # "\"" THEN DecodeError
       ELSE ObjectPairs(s, j + 1, <<>>)

\* JSONArray from the first character of a value: value, then "," or "]"
ArrayItems(s, i, acc) ==
    LET val == ScanOnce(s, i)
        e == SkipSpace(s, val.end)
        all == Append(acc, val.v)
    IN IF ~val.ok THEN DecodeError
       ELSE IF e > Len(s) THEN DecodeError
       ELSE IF s[e] = "]" THEN Decoded(JList(all), e + 1)
       ELSE IF s[e] # "," THEN DecodeError
       ELSE ArrayItems(s, SkipSpace(s, e + 1), all)

\* JSONArray after the "["
ParseArray(s, i) ==
    LET j == SkipSpace(s, i)
    IN IF j <= Len(s) /\ s[j] = "]" THEN Decoded(JList(<<>>), j + 1)
       ELSE ArrayItems(s, j, <<>>)

\* scan_once(string, idx) of json.scanner
ScanOnce(s, i) ==
    IF i > Len(s) THEN DecodeError
    ELSE IF s[i] = "\""
         THEN LET r == ScanString(s, i + 1, <<>>)
              IN IF r.ok THEN Decoded(TStr(r.v), r.end) ELSE DecodeError
    ELSE IF s[i] = "{" THEN ParseObject(s, i + 1)
    ELSE IF s[i] = "[" THEN ParseArray(s, i + 1)
    ELSE IF Has(s, i, NullText) THEN Decoded(TNull, i + 4)
    ELSE IF Has(s, i, TrueText) THEN Decoded(TTrue, i + 4)
    ELSE IF Has(s, i, FalseText) THEN Decoded(TFalse, i + 5)
    ELSE IF ScanNumber(s, i).ok THEN ScanNumber(s, i)
    ELSE IF Has(s, i, NaNText) THEN Decoded(TNum(NaNText), i + 3)
    ELSE IF Has(s, i, InfinityText) THEN Decoded(TNum(InfinityText), i + 8)
    ELSE IF Has(s, i, <<"-">> \o InfinityText)
         THEN Decoded(TNum(<<"-">> \o InfinityText), i + 9)
    ELSE DecodeError

\* decoder.raw_decode(candidate): the value that starts at the first
\* character; what follows it is ignored
raw_decode(candidate) == ScanOnce(candidate, 1)

-----------------------------------------------------------------------------
(* json.dumps(value, ensure_ascii=False, indent=2) *)

RECURSIVE Hex(_, _)
\* f"{n:0{width}x}"
Hex(n, width) ==
    IF width = 0 THEN <<>> ELSE Hex(n \div 16, width - 1) \o <<HexChars[(n % 16) + 1]>>

\* ESCAPE_DCT of json.encoder: what one character of a str is written as
EscapeChar(c) ==
    IF c = "\"" THEN <<"\\", "\"">>
    ELSE IF c = "\\" THEN <<"\\", "\\">>
    ELSE IF c = "\n" THEN <<"\\", "n">>
    ELSE IF c = "\t" THEN <<"\\", "t">>
    ELSE IF c \in ControlChars
         THEN <<"\\", "u">> \o Hex(CHOOSE code \in 0..31 : Chr(code) = c, 4)
    ELSE <<c>>

RECURSIVE Flatten(_)
Flatten(seqs) == IF seqs = <<>> THEN <<>> ELSE Head(seqs) \o Flatten(Tail(seqs))

\* encode_basestring(chars)
Quoted(chars) ==
    <<"\"">> \o Flatten([k \in 1..Len(chars) |-> EscapeChar(chars[k])]) \o <<"\"">>

\* "\n" + " " * (2 * level)
NewLine(level) == <<"\n">> \o [k \in 1..(2 * level) |-> " "]

RECURSIVE Dumps(_, _)
\* _iterencode(value, level)
Dumps(v, level) ==
    IF v.t = "str" THEN Quoted(v.items)
    ELSE IF v.t = "num" THEN v.items
    ELSE IF v.t = "true" THEN TrueText
    ELSE IF v.t = "false" THEN FalseText
    ELSE IF v.t = "null" THEN NullText
    ELSE IF v.items = <<>> THEN (IF v.t = "dict" THEN <<"{", "}">> ELSE <<"[", "]">>)
    ELSE LET Item(k) ==
                 (IF k = 1 THEN <<>> ELSE <<",">>) \o NewLine(level + 1)
                 \o (IF v.t = "dict"
                     THEN Quoted(v.items[k].chars) \o <<":", " ">>
                          \o Dumps(v.items[k].value, level + 1)
                     ELSE Dumps(v.items[k], level + 1))
         IN <<(IF v.t = "dict" THEN "{" ELSE "[")>>
            \o Flatten([k \in 1..Len(v.items) |-> Item(k)])
            \o NewLine(level)
            \o <<(IF v.t = "dict" THEN "}" ELSE "]")>>

-----------------------------------------------------------------------------
(* _extract_json_payload and write_json *)

\* next((idx for idx, ch in enumerate(text) if ch in "{["), None); 0 for None
FirstBrace(text) ==
    LET at == {i \in 1..Len(text) : text[i] \in {"{", "["}}
    IN IF at = {} THEN 0 ELSE CHOOSE i \in at : \A k \in at : i <= k

\* payload.strip(), then the first fenced block if CODE_FENCE finds one
BlockOrText(text, match) ==
    IF match.found THEN StripText(match.group) ELSE text

FencedText(payload) ==
    BlockOrText(StripText(payload), FenceSearch(StripText(payload)))

\* text.lstrip("\ufeff").lstrip()
WorkingText(payload) ==
    LStripChars(LStripChars(FencedText(payload), {BOM}), Whitespace)

\* _extract_json_payload(payload): [cleaned, parsed], parsed = TNull for None
\* candidate = text[start_index:] if start_index is not None else text
Candidate(text, start_index) ==
    IF start_index # 0 THEN SubSeq(text, start_index, Len(text)) ELSE text

\* if not candidate: return "", None; try: raw_decode(candidate) ... return
\* candidate.strip(), parsed; except JSONDecodeError: return
\* candidate.strip(), None
Reconcile(candidate, decoded) ==
    IF candidate = <<>> THEN [cleaned |-> <<>>, parsed |-> TNull]
    ELSE IF decoded.ok
    THEN [cleaned |-> StripText(candidate), parsed |-> decoded.v]
    ELSE [cleaned |-> StripText(candidate), parsed |-> TNull]

ReconcileCandidate(candidate) == Reconcile(candidate, raw_decode(candidate))

ReconcileText(text) == ReconcileCandidate(Candidate(text, FirstBrace(text)))

extract_json_payload(payload) == ReconcileText(WorkingText(payload))

YearText == <<"y", "e", "a", "r">>
RawText == <<"r", "a", "w">>

\* year_tag as a text: None, or its characters
NoTagText == [some |-> FALSE, s |-> <<>>]
TagText(chars) == [some |-> TRUE, s |-> chars]

\* the year_tag handed to _attach_year
AttachTag(tag) == [some |-> tag.some, s |-> Join(tag.s)]

\* The entry _attach_year created has the key year and the tag for its value:
\* both are given their characters, which json.dumps writes.
Spelled(entries, tag) ==
    [m \in 1..Len(entries) |->
        IF "chars" \in DOMAIN entries[m] THEN entries[m]
        ELSE [key |-> entries[m].key,
              value |-> [entries[m].value EXCEPT !.items = tag.s],
              chars |-> YearText]]

Spell(v, tag) ==
    IF v.t = "dict" THEN JDict(Spelled(v.items, tag))
    ELSE IF v.t = "list"
    THEN JList([m \in 1..Len(v.items) |->
                   IF v.items[m].t = "dict"
                   THEN JDict(Spelled(v.items[m].items, tag))
                   ELSE v.items[m]])
    ELSE v

\* target.write_text(text, encoding="utf-8"): the file holds the text, or
\* the encoder raised UnicodeEncodeError on a surrogate
WriteText(text) ==
    IF \E k \in 1..Len(text) : text[k] \in SurrogateChars
    THEN [kind |-> "raised", text |-> <<>>]
    ELSE [kind |-> "written", text |-> text]

\* write_json(target, payload, year_tag)
\* fallback = cleaned or payload.strip()
Fallback(cleaned, payload) ==
    IF cleaned # <<>> THEN cleaned ELSE StripText(payload)

\* wrapped = {"year": year_tag, "raw": fallback}
Wrapped(year_tag, fallback) ==
    JDict(<<TEntry(YearText, TStr(year_tag.s)), TEntry(RawText, TStr(fallback))>>)

\* write_json after cleaned, parsed = _extract_json_payload(payload)
WriteReconciled(ex, payload, year_tag) ==
    IF ex.parsed.t # "null"
    THEN WriteText(Dumps(Spell(attach_year(ex.parsed, AttachTag(year_tag)),
                               year_tag), 0))
    ELSE IF Truthy(AttachTag(year_tag))
    THEN WriteText(Dumps(Wrapped(year_tag, Fallback(ex.cleaned, payload)), 0))
    ELSE WriteText(Fallback(ex.cleaned, payload))

write_json(payload, year_tag) ==
    WriteReconciled(extract_json_payload(payload), payload, year_tag)

-----------------------------------------------------------------------------
(* write_json on the texts a model can return *)

\* length of the texts that are enumerated in full
MaxTextLen == 3

TextChars == {"{", "}", "[", "]", "\"", "1", "a", " ", ":", ",", Tick, BOM}

ShortTexts == SeqsUpTo(TextChars, MaxTextLen)

\* what stands between two fences
FenceBodies ==
    SeqsUpTo({"{", "1", " ", BOM}, 1)
    \cup { <<"{", "}">>, <<"a", "[", "1", "]">>, <<"\n", "{", "}", "\n">>,
           <<"\"", "a", "\"">>, <<"a", " ", "a">> }

\* ... ```tag body``` ...
FencedTexts ==
    { pre \o Fence \o tag \o body \o Fence \o post :
        pre \in { <<>>, <<"a", " ">> },
        tag \in { <<>>, <<"j", "s", "o", "n">>, <<"J", "S">> },
        body \in FenceBodies,
        post \in { <<>>, <<" ", "a">>, <<"[", "]">> \o Fence } }

\* values as json.dumps writes them, and as a model writes them
ValueTexts ==
    { Dumps(JDict(<<TEntry(<<"a">>, TNum(<<"1">>))>>), 0),
      Dumps(JDict(<<TEntry(YearText, TStr(<<"x">>)),
                    TEntry(<<"a">>, JList(<<TTrue, TNull>>))>>), 0),
      Dumps(JList(<<JDict(<<TEntry(<<"a">>, TStr(<<"{">>))>>), TFalse>>), 0),
      Dumps(TStr(<<"a", "[", "a">>), 0),
      Dumps(TStr(<<"a", "\n", "\"">>), 0),
      TrueText, NullText, <<"1", "0">>,
      <<"n", "o", " ", "j", "s", "o", "n", " ", "h", "e", "r", "e">>,
      <<"{", "\"", "a", "\"", ":", "1", "}", " ", "a">>,
      <<"a", " ", "{", "\"", "a", "\"", ":", "1", ",", "\"", "a", "\"", ":", "[",
        "]", "}">>,
      <<"{", "\"", "a", "\"", ":", "\"", "\\", "u", "d", "8", "0", "0", "\"", "}">>,
      <<"[", "\"", "\\", "u", "d", "8", "3", "d", "\\", "u", "d", "e", "0", "0",
        "\"", "]">>,
      <<"\"", "\\", "u", "0", "0", "4", "1", "\"">> }

Payloads == ShortTexts \cup FencedTexts \cup ValueTexts

\* year_tag: None, "" and a document stem
YearTags == {NoTagText, TagText(<<>>), TagText(<<"1">>)}

WInit ==
    /\ wjPc = "call"
    /\ wjPayload \in Payloads
    /\ wjTag \in YearTags
    /\ wjOut = <<>>

\* write_json(json_target, gemini_text, year_tag) returns or raises
WriteJson ==
    /\ wjPc = "call"
    /\ wjOut' = write_json(wjPayload, wjTag)
    /\ wjPc' = IF wjOut'.kind = "written" THEN "returned" ELSE "raised"
    /\ UNCHANGED <<notW, wjPayload, wjTag>>

InitWrite ==
    PParked /\ CParked /\ AParked /\ SParked /\ RParked /\ GParked /\ UParked
    /\ WInit
NextWrite == WriteJson
SpecWrite == InitWrite /\ [][NextWrite]_vars

-----------------------------------------------------------------------------
(* Properties of write_json (SpecWrite) *)

WriteEnded == wjPc \in {"returned", "raised"}

\* a tag is given / no tag is given (nothing is said of the empty tag)
TagGiven == wjTag.some /\ wjTag.s # <<>>
TagAbsent == ~wjTag.some

\* the text from the first "{" or "[" of the working text on; empty without
RecoverableText(payload) ==
    LET text == WorkingText(payload)
    IN IF FirstBrace(text) = 0 THEN <<>>
       ELSE SubSeq(text, FirstBrace(text), Len(text))

\* a JSON value is recoverable: decoding from the first "{" or "[" succeeds
Recoverable(payload) ==
    RecoverableText(payload) # <<>> /\ raw_decode(RecoverableText(payload)).ok

\* the file holds the mapping {year: tag, raw: r} / the text r
IsFallback(out, r) ==
    /\ out.kind = "written"
    /\ TagGiven =>
          out.text = Dumps(JDict(<<TEntry(YearText, TStr(wjTag.s)),
                                   TEntry(RawText, TStr(r))>>), 0)
    /\ TagAbsent => out.text = r

\* C11 (fallback): when no JSON value is recoverable, write_json writes the
\* mapping {year: tag, raw: r} with a tag and the text r without, r being the
\* text from the first "{" or "[" of the working text on and, when the
\* working text has neither, the trimmed input.
FallbackResult ==
    (WriteEnded /\ ~Recoverable(wjPayload)) =>
        IsFallback(wjOut, IF RecoverableText(wjPayload) # <<>>
                          THEN RecoverableText(wjPayload)
                          ELSE StripText(wjPayload))

\* C12 (brace scan): when the working text holds no "{" and no "[", nothing
\* is decoded from it: write_json writes the raw-text fallback, of the working
\* text or of the trimmed input.
BraceScan ==
    (WriteEnded /\ FirstBrace(WorkingText(wjPayload)) = 0) =>
        \/ IsFallback(wjOut, WorkingText(wjPayload))
        \/ IsFallback(wjOut, StripText(wjPayload))

\* C13 (totality): write_json never raises, whatever the text and the tag.
ReconcilerTotal == wjPc # "raised"

\* the payload is one JSON value and nothing else
IsJsonText(payload) ==
    raw_decode(payload).ok /\ raw_decode(payload).end = Len(payload) + 1

\* C14 (idempotence without tag): for a text that is exactly one JSON value
\* and no tag, write_json writes that value, and writes the same again when
\* given what it wrote.
IdempotentWithoutTag ==
    (WriteEnded /\ TagAbsent /\ IsJsonText(wjPayload)) =>
        /\ wjOut.kind = "written"
        /\ wjOut.text = Dumps(raw_decode(wjPayload).v, 0)
        /\ write_json(wjOut.text, wjTag) = wjOut

\* first position >= i at which s has a fence; 0 if none
NextFence(s, i) ==
    LET at == {k \in i..Len(s) : Has(s, k, Fence)}
    IN IF at = {} THEN 0 ELSE CHOOSE k \in at : \A m \in at : k <= m

\* The first fenced block of a text: the first fence, the tag json,
\* javascript or js if one follows it, and the content up to the next fence.
FirstBlock(s) ==
    LET open == NextFence(s, 1)
        tags == {a \in 1..Len(FenceTags) : Occurs(s, open + 3, FenceTags[a])}
        tag == FenceTags[CHOOSE a \in tags :
                            \A b \in tags : Len(FenceTags[b]) <= Len(FenceTags[a])]
        from == open + 3 + Len(tag)
        close == NextFence(s, from)
    IN IF open = 0 \/ close = 0 THEN [found |-> FALSE, inner |-> <<>>]
       ELSE [found |-> TRUE, inner |-> StripText(SubSeq(s, from, close - 1))]

\* C15 (fenced block): with a fenced block in the trimmed text, the working
\* text is the inner content of the first block and write_json writes what it
\* writes for that content alone; without one, the working text is the whole
\* trimmed text.
FencedBlockOnly ==
    WriteEnded =>
        LET block == FirstBlock(StripText(wjPayload))
        IN IF block.found
           THEN /\ FencedText(wjPayload) = block.inner
                /\ wjOut = write_json(block.inner, wjTag)
           ELSE FencedText(wjPayload) = StripText(wjPayload)

-----------------------------------------------------------------------------
(* split_pdf, one iteration at a time *)

\* pages of the document that is split
MaxSplitPages == 10

SInit ==
    /\ spPc = "open"
    /\ spStem \in 1..Len(Universe)
    /\ spPages \in 0..MaxSplitPages
    /\ spIdx = 1
    /\ spHalves = <<>>
    /\ spFiles = {}

\* reader = PdfReader(str(pdf_path)); (out_dir / "pdf_pages").mkdir(...)
SplitOpen ==
    /\ spPc = "open"
    /\ \E ok \in BOOLEAN : spPc' = IF ok THEN "loop" ELSE "raised"
    /\ UNCHANGED <<notS, spStem, spPages, spIdx, spHalves, spFiles>>

\* One iteration of the loop over the sides, inside the loop over the pages:
\* the page geometry is read (before the left side), the half PDF is written
\* and rendered, the HalfPage appended; each of the three may raise.
SplitHalf ==
    /\ spPc = "loop"
    /\ spIdx <= 2 * spPages
    /\ LET half == SplitHalves(spPages)[spIdx]
           half_pdf == HalfPdfPath(Universe[spStem], half)
           half_png == HalfPngPath(Universe[spStem], half)
       IN \E outcome \in {"ok", "geometry", "write", "render"} :
             /\ outcome = "geometry" => half.side = "l"
             /\ spPc' = IF outcome = "ok" THEN "loop" ELSE "raised"
             /\ spFiles' = CASE outcome = "ok" -> spFiles \cup {half_pdf, half_png}
                             [] outcome = "render" -> spFiles \cup {half_pdf}
                             [] OTHER -> spFiles
             /\ spHalves' = IF outcome = "ok" THEN Append(spHalves, half)
                            ELSE spHalves
             /\ spIdx' = IF outcome = "ok" THEN spIdx + 1 ELSE spIdx
    /\ UNCHANGED <<notS, spStem, spPages>>

\* return halves
SplitReturn ==
    /\ spPc = "loop"
    /\ spIdx > 2 * spPages
    /\ spPc' = "returned"
    /\ UNCHANGED <<notS, spStem, spPages, spIdx, spHalves, spFiles>>

InitSplit ==
    PParked /\ CParked /\ AParked /\ WParked /\ RParked /\ GParked /\ UParked
    /\ SInit
NextSplit == SplitOpen \/ SplitHalf \/ SplitReturn
SpecSplit == InitSplit /\ [][NextSplit]_vars

\* C16 (splitter cardinality and order): a split of an N-page document that
\* returns, returns 2N halves, exactly one for each page 0..N-1 and side,
\* in the order of the pages with the left side before the right one, and no
\* two of them have the same label.
SplitCardinality ==
    spPc = "returned" =>
        /\ Len(spHalves) = 2 * spPages
        /\ \A page \in 0..(spPages - 1) : \A side \in {"l", "r"} :
              Cardinality({k \in DOMAIN spHalves :
                              /\ spHalves[k].page_index = page
                              /\ spHalves[k].side = side}) = 1
        /\ \A j, k \in DOMAIN spHalves :
              j < k =>
                 \/ spHalves[j].page_index < spHalves[k].page_index
                 \/ /\ spHalves[j].page_index = spHalves[k].page_index
                    /\ spHalves[j].side = "l"
                    /\ spHalves[k].side = "r"
        /\ \A j, k \in DOMAIN spHalves :
              j # k => label(spHalves[j]) # label(spHalves[k])

\* a ten-page document was split: its last label has two digits
SplitCardinalityWitness ==
    /\ spPc = "returned"
    /\ spPages = 10
    /\ Len(spHalves) = 20
    /\ label(spHalves[20]) = <<"p", "1", "0", "_", "r">>
    /\ label(spHalves[3]) = <<"p", "0", "2", "_", "l">>

-----------------------------------------------------------------------------
(* Two runs of the pipeline on one document, with the same configuration and
   the same results of the collaborators in both runs *)

MaxRerunPages == 2

\* What its collaborators do to a half: "ok" all succeed and the JSON result
\* is written, "raises" run_yomitoku or call_gemini raises, "encode"
\* write_text raises after it has opened (and so emptied) the file.
UnitFates == {"ok", "raises", "encode"}

\* open("wb") / write_text: the file at path holds content, whatever it held
WriteFile(files, path, content) ==
    {f \in files : f.path # path} \cup {[path |-> path, content |-> content]}

PathsOf(files) == {f.path : f \in files}

\* process_half_page: json_target, in the run-th run
RerunJsonTargetPerRun(run, stem, half) ==
    << safe_name(stem),
       stem \o <<"_">> \o label(half) \o <<"_", ToString(run)>>
            \o <<".", "j", "s", "o", "n">> >>

RerunJsonTarget(run, stem, half) == JsonTarget(stem, half)

RECURSIVE RerunSplitFiles(_, _, _, _, _)
\* split_pdf: the files after iterations k..2n on files, raising at iteration
\* fails.at (before the half PDF is written, or at the rendering of it)
RerunSplitFiles(files, stem, n, k, fails) ==
    IF k > 2 * n THEN files
    ELSE LET half == SplitHalves(n)[k]
             pdf == WriteFile(files, HalfPdfPath(stem, half),
                              <<"pdf", half.page_index, half.side>>)
             png == WriteFile(pdf, HalfPngPath(stem, half),
                              <<"png", half.page_index, half.side>>)
         IN IF fails.at = k
            THEN IF fails.render THEN pdf ELSE files
            ELSE RerunSplitFiles(png, stem, n, k + 1, fails)

\* the paths split_pdf writes
RerunSplitPaths(stem, n, fails) ==
    { HalfPdfPath(stem, SplitHalves(n)[k]) :
        k \in {j \in 1..(2 * n) : fails.at = 0 \/ j < fails.at
                                   \/ (j = fails.at /\ fails.render)} }
    \cup
    { HalfPngPath(stem, SplitHalves(n)[k]) :
        k \in {j \in 1..(2 * n) : fails.at = 0 \/ j < fails.at} }

RInit ==
    /\ rrPc = "split"
    /\ rrRun = 1
    /\ rrStem \in 1..Len(Universe)
    /\ rrPages \in 0..MaxRerunPages
    /\ rrSplitFails \in [at : 0..(2 * rrPages), render : BOOLEAN]
    /\ rrSplitFails.at = 0 => ~rrSplitFails.render
    /\ rrFates \in [1..(2 * rrPages) -> UnitFates]
    \* no half is processed after a split that raises
    /\ rrSplitFails.at # 0 => \A k \in 1..(2 * rrPages) : rrFates[k] = "ok"
    /\ rrTodo = {}
    /\ rrFiles = {}
    /\ rrWritten = [run \in 1..2 |-> {}]
    /\ rrFirst = {}

\* process_pdf: halves = split_pdf(pdf_path, pdf_out); a split that raises
\* ends the document, a split that returns submits every half
RerunSplit ==
    /\ rrPc = "split"
    /\ rrFiles' = RerunSplitFiles(rrFiles, Universe[rrStem], rrPages, 1,
                                  rrSplitFails)
    /\ rrWritten' = [rrWritten EXCEPT ![rrRun] =
                        @ \cup RerunSplitPaths(Universe[rrStem], rrPages,
                                               rrSplitFails)]
    /\ rrTodo' = IF rrSplitFails.at = 0 THEN 1..(2 * rrPages) ELSE {}
    /\ rrPc' = "units"
    /\ UNCHANGED <<notR, rrRun, rrStem, rrPages, rrSplitFails, rrFates,
                   rrFirst>>

\* process_half_page of half k, in the order the pool takes the halves
RerunUnit(k) ==
    /\ rrPc = "units"
    /\ k \in rrTodo
    /\ LET half == SplitHalves(rrPages)[k]
           json_target == RerunJsonTarget(rrRun, Universe[rrStem], half)
           written == rrFates[k] \in {"ok", "encode"}
       IN /\ rrFiles' =
                CASE rrFates[k] = "ok" ->
                        WriteFile(rrFiles, json_target,
                                  [year |-> Universe[rrStem], unit |-> k])
                  [] rrFates[k] = "encode" ->
                        WriteFile(rrFiles, json_target, <<>>)
                  [] OTHER -> rrFiles
          /\ rrWritten' = IF written
                          THEN [rrWritten EXCEPT ![rrRun] = @ \cup {json_target}]
                          ELSE rrWritten
    /\ rrTodo' = rrTodo \ {k}
    /\ UNCHANGED <<notR, rrPc, rrRun, rrStem, rrPages, rrSplitFails, rrFates,
                   rrFirst>>

\* the first run ends; the pipeline is run again
RerunAgain ==
    /\ rrPc = "units"
    /\ rrTodo = {}
    /\ rrRun = 1
    /\ rrFirst' = rrFiles
    /\ rrRun' = 2
    /\ rrPc' = "split"
    /\ UNCHANGED <<notR, rrStem, rrPages, rrSplitFails, rrFates, rrTodo,
                   rrFiles, rrWritten>>

\* the second run ends
RerunEnd ==
    /\ rrPc = "units"
    /\ rrTodo = {}
    /\ rrRun = 2
    /\ rrPc' = "done"
    /\ UNCHANGED <<notR, rrRun, rrStem, rrPages, rrSplitFails, rrFates, rrTodo,
                   rrFiles, rrWritten, rrFirst>>

RerunUnits == \E k \in rrTodo : RerunUnit(k)

InitRerun ==
    PParked /\ CParked /\ AParked /\ WParked /\ SParked /\ GParked /\ UParked
    /\ RInit
NextRerun == RerunSplit \/ RerunUnits \/ RerunAgain \/ RerunEnd
SpecRerun == InitRerun /\ [][NextRerun]_vars

\* C17 (idempotent reruns): after two runs on the same document with the same
\* results of the collaborators, both runs have written the same set of split
\* and JSON paths, every path the second run wrote held a file of the first
\* run, and the files and their contents after the second run are those after
\* the first.
RerunIdempotent ==
    rrPc = "done" =>
        /\ rrWritten[1] = rrWritten[2]
        /\ rrWritten[2] \subseteq PathsOf(rrFirst)
        /\ PathsOf(rrFiles) = PathsOf(rrFirst)
        /\ rrFiles = rrFirst
        /\ \A f, g \in rrFiles : f.path = g.path => f = g

\* both runs of a two-page document are over: one half has its JSON result,
\* another raised before write_json
RerunIdempotentWitness ==
    /\ rrPc = "done"
    /\ rrPages = 2
    /\ rrSplitFails.at = 0
    /\ rrFates[1] = "ok"
    /\ rrFates[2] = "raises"
    /\ JsonTarget(Universe[rrStem], SplitHalves(2)[1]) \in rrWritten[2]
    /\ HalfPngPath(Universe[rrStem], SplitHalves(2)[4]) \in rrWritten[2]
    /\ Cardinality(rrFiles) >= 9

-----------------------------------------------------------------------------
(* resolve_config(), the CLI overrides of main() and iter_pdfs().  Four
   options stand for the nine: PDF_INPUT and PDF_INPUT_DIR (_env_path),
   DEVICE (_env_text), MAX_WORKERS (int of _env_text).  An optional value is
   a sequence: <<>> for an unset key or a None argument, <<v>> otherwise. *)

EnvKeys == {"PDF_INPUT", "PDF_INPUT_DIR", "DEVICE", "MAX_WORKERS"}

\* Path(value).expanduser().resolve(): what the texts used below denote
PathOf(text) ==
    CASE text = "a.pdf" -> File(1)
      [] text = "b.pdf" -> File(3)
      [] text = "in" -> Dir(<<1, 2>>)
      [] text = "in2" -> Dir(<<2, 3>>)
      [] text = "empty" -> Dir(<<>>)
      [] OTHER -> MissingPath

\* ROOT / "input_pdfs"
DefaultPdfDir == Dir(<<1, 2, 3>>)

\* int(text): [ok, v]
IntOf(text) ==
    CASE text = "1" -> [ok |-> TRUE, v |-> 1]
      [] text = "2" -> [ok |-> TRUE, v |-> 2]
      [] text = "4" -> [ok |-> TRUE, v |-> 4]
      [] OTHER -> [ok |-> FALSE, v |-> 0]

\* load_env: a key of .env is set in os.environ unless it is there already
load_env(e, file) ==
    [key \in EnvKeys |->
        IF file[key] # <<>> /\ e[key] = <<>> THEN file[key] ELSE e[key]]

\* _env_path(key, fallback)
EnvPath(e, key, fallback) ==
    IF e[key] = <<>> THEN fallback
    ELSE IF e[key][1] = "" THEN NoPath
    ELSE PathOf(e[key][1])

\* _env_text(key, default)
EnvText(e, key, default) ==
    IF e[key] = <<>> \/ e[key][1] = "" THEN default ELSE e[key][1]

\* resolve_config after load_env: [ok, cfg]; int() raises ValueError
resolve_config(e) ==
    LET max_workers == IntOf(EnvText(e, "MAX_WORKERS", "4"))
    IN [ok |-> max_workers.ok,
        cfg |-> [pdf |-> EnvPath(e, "PDF_INPUT", NoPath),
                 pdf_dir |-> EnvPath(e, "PDF_INPUT_DIR", DefaultPdfDir),
                 device |-> EnvText(e, "DEVICE", "cuda"),
                 max_workers |-> max_workers.v]]

\* the parsed arguments; a path argument is taken as given
Arguments ==
    [pdf : {<<>>, <<"b.pdf">>, <<"gone.pdf">>},
     pdf_dir : {<<>>, <<"in2">>},
     device : {<<>>, <<"cpu">>},
     max_workers : {<<>>, <<1>>}]

DotenvFiles ==
    { [key \in EnvKeys |->
          CASE key = "PDF_INPUT" -> f[1]
            [] key = "PDF_INPUT_DIR" -> f[2]
            [] key = "DEVICE" -> f[3]
            [] key = "MAX_WORKERS" -> f[4]] :
      f \in {<<>>, <<"a.pdf">>} \X {<<>>, <<"in">>}
            \X {<<>>, <<"cpu">>} \X {<<>>, <<"2">>} }

Environments ==
    { [key \in EnvKeys |->
          CASE key = "PDF_INPUT" -> f[1]
            [] key = "PDF_INPUT_DIR" -> f[2]
            [] key = "DEVICE" -> f[3]
            [] key = "MAX_WORKERS" -> f[4]] :
      f \in {<<>>, <<"">>, <<"a.pdf">>} \X {<<>>, <<"">>, <<"empty">>}
            \X {<<>>, <<"">>, <<"cuda">>} \X {<<>>, <<"x">>} }

GInit ==
    /\ cfgPc = "start"
    /\ dotenv \in DotenvFiles
    /\ environ \in Environments
    /\ args \in Arguments
    /\ osEnviron = environ
    /\ config = <<>>
    /\ cfgOut = <<>>

\* cfg = resolve_config()
ResolveConfig ==
    /\ cfgPc = "start"
    /\ osEnviron' = load_env(osEnviron, dotenv)
    /\ LET r == resolve_config(osEnviron')
       IN IF r.ok
          THEN /\ config' = r.cfg
               /\ cfgPc' = "resolved"
               /\ UNCHANGED cfgOut
          ELSE /\ cfgPc' = "invalid"
               /\ UNCHANGED <<config, cfgOut>>
    /\ UNCHANGED <<notG, dotenv, environ, args>>

\* if args.X is not None: cfg.X = args.X, option by option
ApplyOverrides ==
    /\ cfgPc = "resolved"
    /\ config' =
          [pdf |-> IF args.pdf # <<>> THEN PathOf(args.pdf[1])
                   ELSE config.pdf,
           pdf_dir |-> IF args.pdf_dir # <<>> THEN PathOf(args.pdf_dir[1])
                       ELSE config.pdf_dir,
           device |-> IF args.device # <<>> THEN args.device[1]
                      ELSE config.device,
           max_workers |-> IF args.max_workers # <<>> THEN args.max_workers[1]
                           ELSE config.max_workers]
    /\ cfgPc' = "overridden"
    /\ UNCHANGED <<notG, dotenv, environ, args, osEnviron, cfgOut>>

\* pdfs = iter_pdfs(cfg.pdf, cfg.pdf_dir)
ListPdfs ==
    /\ cfgPc = "overridden"
    /\ cfgOut' = iter_pdfs(config.pdf, config.pdf_dir)
    /\ cfgPc' = IF cfgOut'.ok THEN "listed" ELSE "raised"
    /\ UNCHANGED <<notG, dotenv, environ, args, osEnviron, config>>

InitConfig ==
    PParked /\ CParked /\ AParked /\ WParked /\ SParked /\ RParked /\ UParked
    /\ GInit
NextConfig == ResolveConfig \/ ApplyOverrides \/ ListPdfs
SpecConfig == InitConfig /\ [][NextConfig]_vars

\* iter_pdfs is over, or resolve_config raised
ConfigEnded == cfgPc \in {"listed", "raised", "invalid"}

\* the value an option has before the CLI: the process environment over the
\* .env file over the default
Layered(key, default) ==
    IF environ[key] # <<>> THEN environ[key]
    ELSE IF dotenv[key] # <<>> THEN dotenv[key]
    ELSE <<default>>

\* C18 (configuration precedence): once the input is listed (or the run has
\* raised), an option given on the command line has the command line's value
\* and the run did not fail on the environment's value of it; an option not
\* given there has the process environment's value, else the .env file's,
\* else the default; and a command-line input selection alone decides the
\* documents: --pdf that file, --pdf-dir (without --pdf) that directory's
\* listing, whatever PDF_INPUT and PDF_INPUT_DIR say.
CliDecides ==
    ConfigEnded =>
        /\ args.max_workers # <<>> =>
              cfgPc # "invalid" /\ config.max_workers = args.max_workers[1]
        /\ cfgPc # "invalid" =>
              /\ args.device # <<>> => config.device = args.device[1]
              /\ args.device = <<>> =>
                    config.device =
                       EnvText([k \in EnvKeys |-> Layered(k, "cuda")],
                               "DEVICE", "cuda")
              /\ args.pdf # <<>> =>
                    cfgOut = iter_pdfs(PathOf(args.pdf[1]), NoPath)
              /\ (args.pdf = <<>> /\ args.pdf_dir # <<>>) =>
                    cfgOut = iter_pdfs(NoPath, PathOf(args.pdf_dir[1]))

-----------------------------------------------------------------------------
(* process_half_page, one step at a time, for MaxCallers units running in the
   inner pool at once: run_yomitoku (the process, then the glob), call_gemini
   (the actions above), write_json, the [DONE] line.  An HTML file is
   [name, mtime, run]: name is the unit whose image it was made from, run is
   0 for a file left by an earlier run and 1 for one of this run. *)

PageDirs == 1..MaxCallers

\* sorted(page_dir.glob("*.html"), key=mtime, reverse=True)[0]: the files
\* that can be first (the sort is stable, the order of glob is not fixed)
Newest(files) == {f \in files : \A g \in files : g.mtime <= f.mtime}

\* yomitoku writes the HTML of unit c's image into dir, over an older one
OcrOutput(files, c, now) ==
    {f \in files : f.name # c} \cup {[name |-> c, mtime |-> now, run |-> 1]}

\* the units have page directories of their own, or (two documents whose
\* names sanitise to the same text) all have the same one; a directory may
\* hold the HTML an earlier run left for its units
UInit ==
    /\ uPc = [c \in Callers |-> "ocr"]
    /\ uErr = [c \in Callers |-> "none"]
    /\ uDir \in {[c \in Callers |-> c], [c \in Callers |-> 1]}
    /\ uOcr = [c \in Callers |-> "none"]
    /\ uHtml = [c \in Callers |-> <<>>]
    /\ uJson = [c \in Callers |-> "none"]
    /\ \E stale \in SUBSET Callers :
          dirHtml = [d \in PageDirs |->
                        {[name |-> c, mtime |-> 0, run |-> 0] :
                            c \in {x \in stale : uDir[x] = d}}]
    /\ clock = 1

HalfFails(c, exc) ==
    /\ uPc' = [uPc EXCEPT ![c] = "failed"]
    /\ uErr' = [uErr EXCEPT ![c] = exc]

\* run_yomitoku: page_dir.mkdir(exist_ok=True); subprocess.run(cmd, check=True)
HalfRunYomitoku(c) ==
    /\ uPc[c] = "ocr"
    /\ \E outcome \in {"nonzero", "wrote", "silent"} :
          /\ uOcr' = [uOcr EXCEPT ![c] = outcome]
          /\ IF outcome = "nonzero"
             THEN HalfFails(c, "CalledProcessError")
             ELSE /\ uPc' = [uPc EXCEPT ![c] = "glob"]
                  /\ UNCHANGED uErr
          /\ IF outcome = "wrote"
             THEN /\ dirHtml' = [dirHtml EXCEPT
                        ![uDir[c]] = OcrOutput(@, c, clock)]
                  /\ clock' = clock + 1
             ELSE UNCHANGED <<dirHtml, clock>>
    /\ UNCHANGED <<notU, uDir, uHtml, uJson>>

\* run_yomitoku: html_files = sorted(...); raise FileNotFoundError if there
\* is none; return html_files[0]
HalfSelectHtml(c) ==
    /\ uPc[c] = "glob"
    /\ IF dirHtml[uDir[c]] = {}
       THEN /\ HalfFails(c, "FileNotFoundError")
            /\ UNCHANGED uHtml
       ELSE /\ \E f \in Newest(dirHtml[uDir[c]]) :
                  uHtml' = [uHtml EXCEPT ![c] = <<f>>]
            /\ uPc' = [uPc EXCEPT ![c] = "model"]
            /\ UNCHANGED uErr
    /\ UNCHANGED <<notU, uDir, uOcr, uJson, dirHtml, clock>>

\* gemini_text = call_gemini(model, prompt_text, half.pdf_path, html_path)
HalfCallGemini(c) ==
    /\ uPc[c] = "model"
    /\ \/ CallUploadPdf(c)
       \/ CallUploadHtml(c)
       \/ CallGenerate(c)
       \/ CallDelete(c)
       \/ CallEnd(c)

\* call_gemini raised: the exception leaves process_half_page
HalfModelRaised(c) ==
    /\ uPc[c] = "model"
    /\ callPc[c] = "raised"
    /\ HalfFails(c, "model")
    /\ UNCHANGED <<notU, uDir, uOcr, uHtml, uJson, dirHtml, clock>>

\* a write_json that does not wait for the text
HalfWriteJsonRegardless(c) ==
    /\ uPc[c] = "model"
    /\ callPc[c] \in {"returned", "raised"}
    /\ uJson' = [uJson EXCEPT ![c] = "written"]
    /\ uPc' = [uPc EXCEPT ![c] = "written"]
    /\ UNCHANGED <<notU, uErr, uDir, uOcr, uHtml, dirHtml, clock>>

\* write_json(json_target, gemini_text, year_tag): the file is written, or
\* write_text raises after it has opened the file
HalfWriteJson(c) ==
    /\ uPc[c] = "model"
    /\ callPc[c] = "returned"
    /\ \E ok \in BOOLEAN :
          IF ok
          THEN /\ uJson' = [uJson EXCEPT ![c] = "written"]
               /\ uPc' = [uPc EXCEPT ![c] = "written"]
               /\ UNCHANGED uErr
          ELSE /\ uJson' = [uJson EXCEPT ![c] = "empty"]
               /\ HalfFails(c, "write")
    /\ UNCHANGED <<notU, uDir, uOcr, uHtml, dirHtml, clock>>

\* print(f"[DONE] ...")
HalfReport(c) ==
    /\ uPc[c] = "written"
    /\ uPc' = [uPc EXCEPT ![c] = "done"]
    /\ UNCHANGED <<notU, uErr, uDir, uOcr, uHtml, uJson, dirHtml, clock>>

InitUnit ==
    PParked /\ CInit /\ AParked /\ WParked /\ SParked /\ RParked /\ GParked
    /\ UInit
NextUnit ==
    \/ \E c \in Callers : HalfRunYomitoku(c)
    \/ \E c \in Callers : HalfSelectHtml(c)
    \/ \E c \in Callers : HalfCallGemini(c)
    \/ \E c \in Callers : HalfModelRaised(c)
    \/ \E c \in Callers : HalfWriteJson(c)
    \/ \E c \in Callers : HalfReport(c)
SpecUnit == InitUnit /\ [][NextUnit]_vars

\* the model call of unit c has been entered
CallStarted(c) == callPc[c] # "upload_pdf"

\* call_gemini is past its generation request, or has left the try block
CallPastRequest(c) == callPc[c] \in {"finally", "returned", "raised"}

UnitOrderState(c) ==
    /\ CallStarted(c) => uOcr[c] \in {"wrote", "silent"} /\ uHtml[c] # <<>>
    /\ uJson[c] # "none" => callPc[c] = "returned"
    /\ uPc[c] = "done" => uJson[c] = "written"
    /\ uErr[c] \in {"CalledProcessError", "FileNotFoundError", "model"} =>
          uJson[c] = "none" /\ uPc[c] = "failed"

UnitOrderStep(c) ==
    /\ callPc'[c] # callPc[c] => uPc[c] = "model"
    /\ CallPastRequest(c) =>
          callPc'[c] \notin {"upload_pdf", "upload_html", "generate"}
    /\ (callPc'[c] = "generate" /\ callPc[c] # "generate") =>
          callPc[c] = "upload_html"
    /\ (uPc'[c] = "done" /\ uPc[c] # "done") => uPc[c] = "written"
    /\ (uJson'[c] # uJson[c]) => uJson[c] = "none"

\* C19 (unit step ordering): in every unit the model call is entered only
\* after run_yomitoku has returned an HTML file; call_gemini never goes back
\* to its generation request once it is past it (one request, no retry); the
\* JSON file is written only after call_gemini has returned, and only once;
\* [DONE] is reached only from the written file; a unit that failed in OCR
\* or in the model call has no JSON file and is never done.
UnitStepOrder ==
    /\ [](\A c \in Callers : UnitOrderState(c))
    /\ [][\A c \in Callers : UnitOrderStep(c)]_vars

\* one unit is done with its JSON written after its one request, while the
\* other failed in its model call and wrote nothing
UnitStepOrderWitness ==
    /\ uPc[1] = "done"
    /\ uJson[1] = "written"
    /\ callPc[1] = "returned"
    /\ uPc[2] = "failed"
    /\ uErr[2] = "model"
    /\ uJson[2] = "none"
    /\ uHtml[2] # <<>>

\* C20 (OCR result provenance): the HTML file a unit selected for its model
\* call is one its own yomitoku process wrote in this run; a unit whose
\* process exited non-zero has failed with CalledProcessError; a unit whose
\* process exited zero and wrote nothing has, once past the glob, failed with
\* FileNotFoundError without entering call_gemini.
OcrProvenance ==
    \A c \in Callers :
        /\ uHtml[c] # <<>> => uHtml[c][1].name = c /\ uHtml[c][1].run = 1
        /\ uOcr[c] = "nonzero" =>
              uPc[c] = "failed" /\ uErr[c] = "CalledProcessError"
        /\ (uOcr[c] = "silent" /\ uPc[c] # "glob") =>
              /\ uPc[c] = "failed"
              /\ uErr[c] = "FileNotFoundError"
              /\ ~CallStarted(c)

====
